---- MODULE Spec2Model ----
(***************************************************************************)
(* Verification model of mlpack's cover-tree dual-tree traverser           *)
(* (dual_tree_traverser_impl.hpp) and of the RangeSearch orchestrator      *)
(* (range_search_impl.hpp).                                                *)
(*                                                                         *)
(* The traversal is modelled as a step machine with an explicit call       *)
(* stack: one activation record per call of Traverse(queryNode,            *)
(* referenceMap), the bodies of ReferenceRecursion, PruneMap and           *)
(* PruneMapForSelfChild inlined as program points of that activation.      *)
(* Every step makes at most one Rescore call, and at most one BaseCase     *)
(* call followed by one Score call, exactly as the source orders them.     *)
(*                                                                         *)
(* The scoring policy (RuleType) is an external collaborator.  Its Score   *)
(* and Rescore are pure functions whose values are chosen lazily and       *)
(* memoised in `policy`; BaseCase records a result pair when the pair is   *)
(* in range.                                                               *)
(***************************************************************************)
EXTENDS Integers, Sequences, FiniteSets, TLC

\* ------------------------------------------------------------------ bounds
\* The finite scores a policy may return are 0..MaxScore: with one finite
\* score every order of a bucket is a tie order of the sort.
MaxScore == 0
\* Number of traverser instances (one per Search call or harness run).
MaxRuns == 2

\* ------------------------------------------------------- program constants
\* The leaf scale of a cover tree node.
INT_MIN == -2147483647 - 1
\* The prune sentinel of Score and Rescore.
DBL_MAX == 1000000000

\* --------------------------------------------------------------- utilities
Max(S) == CHOOSE x \in S : \A y \in S : y <= x
Min(S) == CHOOSE x \in S : \A y \in S : x <= y

RECURSIVE SumSeq(_)
SumSeq(s) == IF s = << >> THEN 0 ELSE Head(s) + SumSeq(Tail(s))

RECURSIVE SetToSeq(_)
SetToSeq(S) ==
  IF S = {} THEN << >>
  ELSE LET x == CHOOSE y \in S : TRUE IN <<x>> \o SetToSeq(S \ {x})

\* ------------------------------------------------------------ cover trees
\* A tree is a record of three arrays over its nodes 1..N, node 1 the root:
\* scale[n], point[n], children[n] (children[n][1] is the self-child).
\* A node is a leaf iff its scale is INT_MIN; every other node has a
\* self-child with the same point and children of strictly smaller scale.

\* one point, the root is a leaf
TreeLeaf ==
  [scale |-> <<INT_MIN>>, point |-> <<0>>, children |-> << <<>> >>]

\* one point, the root has only its self-child
TreeChain ==
  [scale |-> <<1, INT_MIN>>, point |-> <<0, 0>>,
   children |-> << <<2>>, <<>> >>]

\* two points below a root of scale 1
TreeTwo ==
  [scale |-> <<1, INT_MIN, INT_MIN>>, point |-> <<0, 0, 1>>,
   children |-> << <<2, 3>>, <<>>, <<>> >>]

\* two points, the children of the root at two different non-leaf scales
TreeDeep ==
  [scale |-> <<2, 1, 0, INT_MIN, INT_MIN>>, point |-> <<0, 0, 1, 0, 1>>,
   children |-> << <<2, 3>>, <<4>>, <<5>>, <<>>, <<>> >>]

\* two points, the children of the root at the same non-leaf scale
TreeWide ==
  [scale |-> <<2, 1, 1, INT_MIN, INT_MIN>>, point |-> <<0, 0, 1, 0, 1>>,
   children |-> << <<2, 3>>, <<4>>, <<5>>, <<>>, <<>> >>]

\* two points, both leaves below a root of scale 2
TreeTall ==
  [scale |-> <<2, INT_MIN, INT_MIN>>, point |-> <<0, 0, 1>>,
   children |-> << <<2, 3>>, <<>>, <<>> >>]

\* The pairs <<query tree, reference tree>> that are traversed.
TreePairs ==
  {<<TreeLeaf, TreeLeaf>>, <<TreeLeaf, TreeChain>>, <<TreeLeaf, TreeTwo>>,
   <<TreeChain, TreeLeaf>>, <<TreeChain, TreeChain>>, <<TreeChain, TreeTwo>>,
   <<TreeChain, TreeDeep>>, <<TreeChain, TreeWide>>,
   <<TreeTwo, TreeLeaf>>, <<TreeTwo, TreeChain>>, <<TreeTwo, TreeTwo>>,
   <<TreeDeep, TreeTwo>>}

Nodes(tree) == 1..Len(tree.scale)
Scale(tree, n) == tree.scale[n]
Point(tree, n) == tree.point[n]
NumChildren(tree, n) == Len(tree.children[n])
\* Child(i) with the source's 0-based index.
Child(tree, n, i) == tree.children[n][i + 1]
TreePoints(tree) == {tree.point[n] : n \in Nodes(tree)}

\* The points under node n (its descendant leaves' points; n's own point is
\* among them because of the self-child chain).
RECURSIVE Descendants(_, _)
Descendants(tree, n) ==
  IF tree.children[n] = << >> THEN {tree.point[n]}
  ELSE UNION {Descendants(tree, tree.children[n][k]) :
                k \in 1..Len(tree.children[n])}

\* ------------------------------------------- std::map<int, std::vector<>>
EmptyMap == << >>
MapErase(m, k) == [x \in (DOMAIN m) \ {k} |-> m[x]]
MapPut(m, k, v) == [x \in (DOMAIN m) \cup {k} |-> IF x = k THEN v ELSE m[x]]
\* m[k].push_back(f), operator[] creating the bucket when it is absent
MapPushBack(m, k, f) ==
  MapPut(m, k, IF k \in DOMAIN m THEN Append(m[k], f) ELSE <<f>>)
\* A reverse_iterator is kept as its base: a key of the map, or MapEnd, the
\* position of end(), which lies after every key.
MapEnd == 2147483647
RAtEnd(m, base) == {k \in DOMAIN m : k < base} = {}
RDeref(m, base) == Max({k \in DOMAIN m : k < base})


\* ------------------------------------------------------------------ state
VARIABLES
  queryTree,      \* the query tree handed to the traverser
  referenceTree,  \* the reference tree handed to the traverser
  querySet,       \* querySet[i]: the original point stored at column i
  referenceSet,   \* referenceSet[j]: the original point stored at column j
  inRange,        \* the pairs <<query point, reference point>> in the range
  sound,          \* TRUE: the policy prunes only what holds no result
  policy,         \* the memoised values of Score and Rescore
  trav,           \* trav[t]: traverser t, its rule object and call stack
  ablation,       \* TRUE: the traversers after the first never reuse a base case
  rs              \* the RangeSearch object and the caller's containers

vars == <<queryTree, referenceTree, querySet, referenceSet, inRange, sound,
          policy, trav, ablation, rs>>

config == <<queryTree, referenceTree, querySet, referenceSet, inRange, sound,
            ablation>>

Runs == 1..MaxRuns

\* The RangeSearch object before any constructor ran.
NoRangeSearch == [state |-> "none"]

\* ------------------------------------------------------ the scoring policy
\* MetricType::Evaluate on two stored points.
Metric(a, b) == 10 * a + b + 1

\* RuleType::BaseCase(queryIndex, referenceIndex): the distance of the pair.
BaseCaseValue(queryIndex, referenceIndex) ==
  Metric(querySet[queryIndex], referenceSet[referenceIndex])

\* range.Contains(distance)
Contains(queryIndex, referenceIndex) ==
  <<querySet[queryIndex], referenceSet[referenceIndex]>> \in inRange

\* BaseCase's effect on the rule object of traverser record tr: the call is
\* counted, and a pair in range is appended to the result containers.
BaseCase(tr, queryIndex, referenceIndex) ==
  IF Contains(queryIndex, referenceIndex)
  THEN [tr EXCEPT
          !.baseCalls[<<queryIndex, referenceIndex>>] = @ + 1,
          !.neighbors[queryIndex] = Append(@, referenceIndex),
          !.distances[queryIndex] =
             Append(@, BaseCaseValue(queryIndex, referenceIndex))]
  ELSE [tr EXCEPT !.baseCalls[<<queryIndex, referenceIndex>>] = @ + 1]

\* A sound policy returns the sentinel for a node pair only when no point
\* pair under the two nodes is in range.
MayPrune(q, r) ==
  \/ ~sound
  \/ \A qp \in Descendants(queryTree, q), rp \in Descendants(referenceTree, r) :
       ~Contains(qp, rp)

\* The values Score(queryNode q, referenceNode r, baseCase) may return.  A
\* policy whose stopping condition is met prunes universally.
ScoreOutcomes(q, r, baseCase) ==
  IF policy.stopped THEN {DBL_MAX}
  ELSE IF <<q, r, baseCase>> \in DOMAIN policy.score
    THEN {policy.score[<<q, r, baseCase>>]}
    ELSE (0..MaxScore) \cup (IF MayPrune(q, r) THEN {DBL_MAX} ELSE {})

\* The values Rescore(queryNode q, referenceNode r, oldScore) may return.
RescoreOutcomes(q, r, oldScore) ==
  IF policy.stopped THEN {DBL_MAX}
  ELSE IF <<q, r, oldScore>> \in DOMAIN policy.rescore
    THEN {policy.rescore[<<q, r, oldScore>>]}
    ELSE {oldScore} \cup (IF MayPrune(q, r) THEN {DBL_MAX} ELSE {})

\* No value of the policy is fixed yet.  `stopped` says that the stopping
\* condition of an early-terminating policy is met, `pruning` that a Score
\* or Rescore call has returned since.
NoPolicy ==
  [score |-> << >>, rescore |-> << >>, singleDecided |-> FALSE,
   singlePruned |-> {}, stopped |-> FALSE, pruning |-> FALSE]

Scored(q, r, baseCase, v) ==
  [policy EXCEPT !.score = MapPut(@, <<q, r, baseCase>>, v),
                 !.pruning = @ \/ policy.stopped]
Rescored(q, r, oldScore, v) ==
  [policy EXCEPT !.rescore = MapPut(@, <<q, r, oldScore>>, v),
                 !.pruning = @ \/ policy.stopped]

\* The point pairs under a node pair.
PairsUnder(q, r) ==
  Descendants(queryTree, q) \X Descendants(referenceTree, r)

\* --------------------------------------------------- traverser records
\* DualCoverTreeMapEntry
MapEntry(referenceNode, score, referenceIndex, queryIndex, baseCase) ==
  [referenceNode |-> referenceNode, score |-> score,
   referenceIndex |-> referenceIndex, queryIndex |-> queryIndex,
   baseCase |-> baseCase]

\* One call of Traverse(queryNode, referenceMap) and its locals.  `shared`
\* says that referenceMap is the caller's own map, passed by reference.
Activation(queryNode, referenceMap, shared) ==
  [queryNode |-> queryNode, referenceMap |-> referenceMap, pc |-> "enter",
   i |-> 0, j |-> 0, c |-> 0, baseCase |-> 0, childMap |-> EmptyMap,
   it |-> MapEnd, scaleVector |-> << >>, shared |-> shared]

\* A traverser that was not constructed yet, with the rule object made for
\* nq query points and nr reference points: result containers cleared and
\* resized to one entry per query point.  The record also keeps what an
\* observer of the run would log: the calls made on the policy, the point
\* pairs under the pruned node pairs (covered, counted in credit with their
\* multiplicity), the prunes its own steps counted (ownPrunes), the order in
\* which buckets of several frames were expanded, and the calls of Traverse
\* that returned at the empty-frontier test.
NewRules(nq, nr) ==
  [status |-> "idle", numPrunes |-> 0, stack |-> << >>, reuse |-> TRUE,
   ub |-> FALSE, assertFailed |-> FALSE,
   neighbors |-> [i \in 0..(nq - 1) |-> << >>],
   distances |-> [i \in 0..(nq - 1) |-> << >>],
   baseCalls |-> [p \in (0..(nq - 1)) \X (0..(nr - 1)) |-> 0],
   nScore |-> 0, nRescore |-> 0, credit |-> 0, ownPrunes |-> 0,
   covered |-> {}, order |-> << >>, emptyReturns |-> 0]

IdleTraverser ==
  NewRules(Cardinality(DOMAIN querySet), Cardinality(DOMAIN referenceSet))

\* DualTreeTraverser::DualTreeTraverser(rule): numPrunes(0)
DualTreeTraverser(tr, reuse) ==
  [tr EXCEPT !.status = "constructed", !.numPrunes = 0, !.reuse = reuse]

Top(tr) == tr.stack[Len(tr.stack)]
ReplaceTop(tr, a) == [tr EXCEPT !.stack[Len(tr.stack)] = a]
Push(tr, a) == [tr EXCEPT !.stack = Append(@, a)]

\* Return from the top activation.  A map passed by reference keeps the
\* callee's changes; the outermost return ends Traverse(queryNode, refNode).
Return(tr) ==
  LET n == Len(tr.stack)
      callee == tr.stack[n]
      rest == SubSeq(tr.stack, 1, n - 1)
  IN  IF n = 1 THEN [tr EXCEPT !.stack = << >>, !.status = "done"]
      ELSE IF callee.shared
        THEN [tr EXCEPT !.stack =
                [rest EXCEPT ![n - 1].referenceMap = callee.referenceMap]]
        ELSE [tr EXCEPT !.stack = rest]

\* ++numPrunes on a counter that is one variable for all traversers: the
\* increment starts from the count the last increment of any traverser
\* left.
PrunedShared(tr, n, pairs) ==
  [tr EXCEPT !.numPrunes = Max({trav[u].numPrunes : u \in DOMAIN trav}) + n,
             !.ownPrunes = @ + n, !.credit = @ + Cardinality(pairs),
             !.covered = @ \cup pairs]

\* ++numPrunes (or += n) on the traverser's own member, the pruned node pair
\* holding the point pairs `pairs`.
Pruned(tr, n, pairs) ==
  [tr EXCEPT !.numPrunes = @ + n, !.ownPrunes = @ + n,
             !.credit = @ + Cardinality(pairs), !.covered = @ \cup pairs]

\* The program aborts (a read through an invalid iterator faults).
Crashed(tr) == [tr EXCEPT !.status = "crashed", !.ub = TRUE]

Running(t) == trav[t].status = "running"
At(t, pc) == Running(t) /\ Top(trav[t]).pc = pc


\* The results of std::sort(scaleVector) under operator< on score: every
\* arrangement of the frames in which the scores do not decrease (std::sort
\* is not stable, frames of equal score come out in any order).
SortByScore(vec) ==
  LET n == Len(vec)
      perms == {p \in [1..n -> 1..n] :
                  /\ \A x, y \in 1..n : x # y => p[x] # p[y]
                  /\ \A x, y \in 1..n :
                       x < y => vec[p[x]].score <= vec[p[y]].score}
  IN  {[k \in 1..n |-> vec[p[k]]] : p \in perms}

\* A cache test that never finds the base case cached.
CachedForNever(tr, frame, queryPoint, refPoint) == FALSE

\* A cache test that loses its index comparison when reuse is switched off:
\* every frame then passes for cached.
CachedForUnlessReuse(tr, frame, queryPoint, refPoint) ==
  tr.reuse =>
    (frame.referenceIndex = refPoint /\ frame.queryIndex = queryPoint)

\* Whether the frame's cached base case is taken as valid for the pair
\* (queryPoint, refPoint); a traverser with reuse switched off never does.
CachedFor(tr, frame, queryPoint, refPoint) ==
  /\ tr.reuse
  /\ frame.referenceIndex = refPoint
  /\ frame.queryIndex = queryPoint

\* ------------------------------------------------ Traverse(query, reference)
\* The root frame is created with its base case and Traverse(queryNode,
\* refMap) is called on a map local to this call.
Traverse2(t) ==
  /\ trav[t].status = "constructed"
  /\ LET qp == Point(queryTree, 1)
         rp == Point(referenceTree, 1)
         rootRefEntry == MapEntry(1, 0, rp, qp, BaseCaseValue(qp, rp))
         refMap == MapPushBack(EmptyMap, Scale(referenceTree, 1), rootRefEntry)
         tr == BaseCase(trav[t], qp, rp)
     IN  trav' = [trav EXCEPT ![t] =
                    [tr EXCEPT !.status = "running",
                               !.stack = <<Activation(1, refMap, FALSE)>>]]
  /\ UNCHANGED <<config, policy, rs>>

\* ------------------------------------------- Traverse(queryNode, referenceMap)
\* Traverse without its first statement: ReferenceRecursion is entered
\* whatever the size of the map.
TraverseEnterUnchecked(t) ==
  /\ At(t, "enter")
  /\ trav' = [trav EXCEPT ![t] =
                ReplaceTop(trav[t], [Top(trav[t]) EXCEPT !.pc = "rr_loop"])]
  /\ UNCHANGED <<config, policy, rs>>

\* if (referenceMap.size() == 0) return; else ReferenceRecursion is entered.
TraverseEnter(t) ==
  /\ At(t, "enter")
  /\ LET tr == trav[t]
         a == Top(tr)
     IN  trav' = [trav EXCEPT ![t] =
                    IF DOMAIN a.referenceMap = {}
                    THEN [Return(tr) EXCEPT !.emptyReturns = @ + 1]
                    ELSE ReplaceTop(tr, [a EXCEPT !.pc = "rr_loop"])]
  /\ UNCHANGED <<config, policy, rs>>

\* ------------------------------------------------------ ReferenceRecursion
\* The loop of ReferenceRecursion with the break for a leaf query node
\* taken whatever the coarsest key is: no bucket is expanded for a query
\* leaf.
ReferenceRecursionLoopBreak(t) ==
  /\ At(t, "rr_loop")
  /\ LET tr == trav[t]
         a == Top(tr)
         m == a.referenceMap
     IN  IF DOMAIN m = {}
         THEN \E fault \in BOOLEAN :
                trav' = [trav EXCEPT ![t] =
                  IF fault THEN Crashed(tr)
                  ELSE [ReplaceTop(tr, [a EXCEPT !.pc = "descent"])
                          EXCEPT !.ub = TRUE]]
         ELSE IF /\ Max(DOMAIN m) > Scale(queryTree, a.queryNode)
                 /\ Scale(queryTree, a.queryNode) # INT_MIN
           THEN \E sorted \in SortByScore(m[Max(DOMAIN m)]) :
                  trav' = [trav EXCEPT ![t] =
                    [ReplaceTop(tr,
                       [a EXCEPT !.referenceMap[Max(DOMAIN m)] = sorted,
                                 !.i = 0, !.pc = "rr_frame"])
                     EXCEPT !.order =
                       IF Len(sorted) < 2 THEN @
                       ELSE Append(@, [k \in 1..Len(sorted) |->
                                         sorted[k].referenceNode])]]
           ELSE trav' = [trav EXCEPT ![t] =
                    ReplaceTop(tr, [a EXCEPT !.pc = "descent"])]
  /\ UNCHANGED <<config, policy, rs>>

\* The loop test, and for a bucket to expand the sort of its frames.  On an
\* empty map *referenceMap.rbegin() is undefined: the read faults, or it
\* yields some key; a key above the query scale leads into a bucket that
\* does not exist (a fault), any other key ends the loop.
ReferenceRecursionLoop(t) ==
  /\ At(t, "rr_loop")
  /\ LET tr == trav[t]
         a == Top(tr)
         m == a.referenceMap
     IN  IF DOMAIN m = {}
         THEN \E fault \in BOOLEAN :
                trav' = [trav EXCEPT ![t] =
                  IF fault THEN Crashed(tr)
                  ELSE [ReplaceTop(tr, [a EXCEPT !.pc = "descent"])
                          EXCEPT !.ub = TRUE]]
         ELSE IF Max(DOMAIN m) > Scale(queryTree, a.queryNode)
           THEN \E sorted \in SortByScore(m[Max(DOMAIN m)]) :
                  trav' = [trav EXCEPT ![t] =
                    [ReplaceTop(tr,
                       [a EXCEPT !.referenceMap[Max(DOMAIN m)] = sorted,
                                 !.i = 0, !.pc = "rr_frame"])
                     EXCEPT !.order =
                       IF Len(sorted) < 2 THEN @
                       ELSE Append(@, [k \in 1..Len(sorted) |->
                                         sorted[k].referenceNode])]]
           ELSE trav' = [trav EXCEPT ![t] =
                    ReplaceTop(tr, [a EXCEPT !.pc = "descent"])]
  /\ UNCHANGED <<config, policy, rs>>

\* The frame loop with `break` in the place of `continue`: the first frame
\* of the sorted bucket that Rescore prunes ends the bucket, as if no later
\* frame could do better.
ReferenceRecursionRescoreBreak(t) ==
  /\ At(t, "rr_frame")
  /\ LET tr == trav[t]
         a == Top(tr)
         m == a.referenceMap
         top == Max(DOMAIN m)
         scaleVector == m[top]
         erased == [a EXCEPT !.referenceMap = MapErase(m, top),
                             !.i = 0, !.pc = "rr_loop"]
     IN  IF a.i >= Len(scaleVector)
         THEN /\ trav' = [trav EXCEPT ![t] = ReplaceTop(tr, erased)]
              /\ UNCHANGED policy
         ELSE LET frame == scaleVector[a.i + 1]
                  refNode == frame.referenceNode
              IN  \E v \in RescoreOutcomes(a.queryNode, refNode, frame.score) :
                    /\ policy' = Rescored(a.queryNode, refNode, frame.score, v)
                    /\ trav' = [trav EXCEPT ![t] =
                         [(IF v = DBL_MAX
                           THEN ReplaceTop(
                                  Pruned(tr, 1, PairsUnder(a.queryNode, refNode)),
                                  erased)
                           ELSE ReplaceTop(tr, [a EXCEPT !.pc = "rr_base"]))
                          EXCEPT !.nRescore = @ + 1]]
  /\ UNCHANGED <<config, rs>>

\* The frame loop of the coarsest bucket: past its last frame the bucket is
\* erased; else the frame is rescored against the query node.
ReferenceRecursionRescore(t) ==
  /\ At(t, "rr_frame")
  /\ LET tr == trav[t]
         a == Top(tr)
         m == a.referenceMap
         top == Max(DOMAIN m)
         scaleVector == m[top]
     IN  IF a.i >= Len(scaleVector)
         THEN /\ trav' = [trav EXCEPT ![t] = ReplaceTop(tr,
                   [a EXCEPT !.referenceMap = MapErase(m, top),
                             !.i = 0, !.pc = "rr_loop"])]
              /\ UNCHANGED policy
         ELSE LET frame == scaleVector[a.i + 1]
                  refNode == frame.referenceNode
              IN  \E v \in RescoreOutcomes(a.queryNode, refNode, frame.score) :
                    /\ policy' = Rescored(a.queryNode, refNode, frame.score, v)
                    /\ trav' = [trav EXCEPT ![t] =
                         [(IF v = DBL_MAX
                           THEN ReplaceTop(
                                  Pruned(tr, 1, PairsUnder(a.queryNode, refNode)),
                                  [a EXCEPT !.i = @ + 1])
                           ELSE ReplaceTop(tr, [a EXCEPT !.pc = "rr_base"]))
                          EXCEPT !.nRescore = @ + 1]]
  /\ UNCHANGED <<config, rs>>

\* The prune of a reference node counted as one prune, whatever the number
\* of its children.
ReferenceRecursionScoreOnePrune(t) ==
  /\ At(t, "rr_base")
  /\ LET tr == trav[t]
         a == Top(tr)
         m == a.referenceMap
         frame == m[Max(DOMAIN m)][a.i + 1]
         refNode == frame.referenceNode
         refPoint == Point(referenceTree, refNode)
         queryPoint == Point(queryTree, a.queryNode)
         cached == CachedFor(tr, frame, queryPoint, refPoint)
         baseCase == IF cached THEN frame.baseCase
                     ELSE BaseCaseValue(queryPoint, refPoint)
         tr1 == IF cached THEN tr ELSE BaseCase(tr, queryPoint, refPoint)
     IN  \E childScore \in ScoreOutcomes(a.queryNode, refNode, baseCase) :
           /\ policy' = Scored(a.queryNode, refNode, baseCase, childScore)
           /\ trav' = [trav EXCEPT ![t] =
                [(IF childScore = DBL_MAX
                  THEN ReplaceTop(
                         Pruned(tr1, 1,
                                PairsUnder(a.queryNode, refNode)),
                         [a EXCEPT !.i = @ + 1, !.pc = "rr_frame"])
                  ELSE ReplaceTop(tr1, [a EXCEPT !.baseCase = baseCase,
                                                !.pc = "rr_self"]))
                 EXCEPT !.nScore = @ + 1]]
  /\ UNCHANGED <<config, rs>>

\* The base case of the frame (recomputed unless it was cached for this very
\* pair) and the score that decides on all children at once.
ReferenceRecursionScore(t) ==
  /\ At(t, "rr_base")
  /\ LET tr == trav[t]
         a == Top(tr)
         m == a.referenceMap
         frame == m[Max(DOMAIN m)][a.i + 1]
         refNode == frame.referenceNode
         refPoint == Point(referenceTree, refNode)
         queryPoint == Point(queryTree, a.queryNode)
         cached == CachedFor(tr, frame, queryPoint, refPoint)
         baseCase == IF cached THEN frame.baseCase
                     ELSE BaseCaseValue(queryPoint, refPoint)
         tr1 == IF cached THEN tr ELSE BaseCase(tr, queryPoint, refPoint)
     IN  \E childScore \in ScoreOutcomes(a.queryNode, refNode, baseCase) :
           /\ policy' = Scored(a.queryNode, refNode, baseCase, childScore)
           /\ trav' = [trav EXCEPT ![t] =
                [(IF childScore = DBL_MAX
                  THEN ReplaceTop(
                         Pruned(tr1, NumChildren(referenceTree, refNode),
                                PairsUnder(a.queryNode, refNode)),
                         [a EXCEPT !.i = @ + 1, !.pc = "rr_frame"])
                  ELSE ReplaceTop(tr1, [a EXCEPT !.baseCase = baseCase,
                                                !.pc = "rr_self"]))
                 EXCEPT !.nScore = @ + 1]]
  /\ UNCHANGED <<config, rs>>

\* The self-child handled like the other children: a BaseCase call of its
\* own before it is scored.
ReferenceRecursionSelfChildBaseCase(t) ==
  /\ At(t, "rr_self")
  /\ LET tr0 == trav[t]
         a == Top(tr0)
         tr == BaseCase(tr0, Point(queryTree, a.queryNode),
                        Point(referenceTree,
                              Child(referenceTree,
                                    a.referenceMap[Max(DOMAIN a.referenceMap)]
                                                  [a.i + 1].referenceNode,
                                    0)))
         m == a.referenceMap
         frame == m[Max(DOMAIN m)][a.i + 1]
         refNode == frame.referenceNode
         child == Child(referenceTree, refNode, 0)
         newFrame(score) ==
           MapEntry(child, score, Point(referenceTree, refNode),
                    Point(queryTree, a.queryNode), a.baseCase)
     IN  \E childScore \in ScoreOutcomes(a.queryNode, child, a.baseCase) :
           /\ policy' = Scored(a.queryNode, child, a.baseCase, childScore)
           /\ trav' = [trav EXCEPT ![t] =
                [(IF childScore # DBL_MAX
                  THEN ReplaceTop(tr,
                         [a EXCEPT !.referenceMap =
                              MapPushBack(m, Scale(referenceTree, child),
                                          newFrame(childScore)),
                            !.j = 1, !.pc = "rr_child"])
                  ELSE ReplaceTop(
                         Pruned(tr, 1, PairsUnder(a.queryNode, child)),
                         [a EXCEPT !.j = 1, !.pc = "rr_child"]))
                 EXCEPT !.nScore = @ + 1]]
  /\ UNCHANGED <<config, rs>>

\* The self-child is scored with the base case of its parent and admitted
\* without a base case of its own.
ReferenceRecursionSelfChild(t) ==
  /\ At(t, "rr_self")
  /\ LET tr == trav[t]
         a == Top(tr)
         m == a.referenceMap
         frame == m[Max(DOMAIN m)][a.i + 1]
         refNode == frame.referenceNode
         child == Child(referenceTree, refNode, 0)
         newFrame(score) ==
           MapEntry(child, score, Point(referenceTree, refNode),
                    Point(queryTree, a.queryNode), a.baseCase)
     IN  \E childScore \in ScoreOutcomes(a.queryNode, child, a.baseCase) :
           /\ policy' = Scored(a.queryNode, child, a.baseCase, childScore)
           /\ trav' = [trav EXCEPT ![t] =
                [(IF childScore # DBL_MAX
                  THEN ReplaceTop(tr,
                         [a EXCEPT !.referenceMap =
                              MapPushBack(m, Scale(referenceTree, child),
                                          newFrame(childScore)),
                            !.j = 1, !.pc = "rr_child"])
                  ELSE ReplaceTop(
                         Pruned(tr, 1, PairsUnder(a.queryNode, child)),
                         [a EXCEPT !.j = 1, !.pc = "rr_child"]))
                 EXCEPT !.nScore = @ + 1]]
  /\ UNCHANGED <<config, rs>>

\* The non-self children: a fresh base case and a score for each.
ReferenceRecursionChild(t) ==
  /\ At(t, "rr_child")
  /\ LET tr == trav[t]
         a == Top(tr)
         m == a.referenceMap
         frame == m[Max(DOMAIN m)][a.i + 1]
         refNode == frame.referenceNode
     IN  IF a.j >= NumChildren(referenceTree, refNode)
         THEN /\ trav' = [trav EXCEPT ![t] = ReplaceTop(tr,
                   [a EXCEPT !.i = @ + 1, !.j = 0, !.baseCase = 0,
                             !.pc = "rr_frame"])]
              /\ UNCHANGED policy
         ELSE LET child == Child(referenceTree, refNode, a.j)
                  queryIndex == Point(queryTree, a.queryNode)
                  refIndex == Point(referenceTree, child)
                  baseCase == BaseCaseValue(queryIndex, refIndex)
                  tr1 == BaseCase(tr, queryIndex, refIndex)
                  newFrame(score) ==
                    MapEntry(child, score, refIndex, queryIndex, baseCase)
              IN  \E childScore \in ScoreOutcomes(a.queryNode, child, baseCase) :
                    /\ policy' = Scored(a.queryNode, child, baseCase, childScore)
                    /\ trav' = [trav EXCEPT ![t] =
                         [(IF childScore = DBL_MAX
                           THEN ReplaceTop(
                                  Pruned(tr1, 1, PairsUnder(a.queryNode, child)),
                                  [a EXCEPT !.j = @ + 1, !.baseCase = baseCase])
                           ELSE ReplaceTop(tr1,
                                  [a EXCEPT !.referenceMap =
                                       MapPushBack(m, Scale(referenceTree, child),
                                                   newFrame(childScore)),
                                     !.j = @ + 1, !.baseCase = baseCase]))
                          EXCEPT !.nScore = @ + 1]]
  /\ UNCHANGED <<config, rs>>


\* ------------------------------------------------ Traverse: query descent
\* The descent without the loop over the non-self children: only the
\* self-child is recursed into.
QueryDescentSelfOnly(t) ==
  /\ At(t, "descent")
  /\ LET tr == trav[t]
         a == Top(tr)
         m == a.referenceMap
         scale == Scale(queryTree, a.queryNode)
         descend == ReplaceTop(tr, [a EXCEPT !.c = NumChildren(queryTree, a.queryNode),
                                            !.pc = "child_loop"])
     IN  IF scale = INT_MIN
         THEN trav' = [trav EXCEPT ![t] =
                 ReplaceTop(tr, [a EXCEPT !.pc = "leaf_begin"])]
         ELSE IF DOMAIN m = {}
           THEN \E outcome \in {"fault", "descend", "return"} :
                  trav' = [trav EXCEPT ![t] =
                    CASE outcome = "fault" -> Crashed(tr)
                      [] outcome = "descend" -> [descend EXCEPT !.ub = TRUE]
                      [] OTHER -> [Return(tr) EXCEPT !.ub = TRUE]]
           ELSE trav' = [trav EXCEPT ![t] =
                   IF scale >= Max(DOMAIN m) THEN descend ELSE Return(tr)]
  /\ UNCHANGED <<config, policy, rs>>

\* ReferenceRecursion has returned.  A query leaf goes on to the base cases.
\* For another query node the coarsest key is read: on an empty map that
\* read is undefined (a fault, or either answer of the comparison).  A node
\* that does not descend returns: it has no base cases to evaluate.
QueryDescent(t) ==
  /\ At(t, "descent")
  /\ LET tr == trav[t]
         a == Top(tr)
         m == a.referenceMap
         scale == Scale(queryTree, a.queryNode)
         descend == ReplaceTop(tr, [a EXCEPT !.c = 1, !.pc = "child_loop"])
     IN  IF scale = INT_MIN
         THEN trav' = [trav EXCEPT ![t] =
                 ReplaceTop(tr, [a EXCEPT !.pc = "leaf_begin"])]
         ELSE IF DOMAIN m = {}
           THEN \E outcome \in {"fault", "descend", "return"} :
                  trav' = [trav EXCEPT ![t] =
                    CASE outcome = "fault" -> Crashed(tr)
                      [] outcome = "descend" -> [descend EXCEPT !.ub = TRUE]
                      [] OTHER -> [Return(tr) EXCEPT !.ub = TRUE]]
           ELSE trav' = [trav EXCEPT ![t] =
                   IF scale >= Max(DOMAIN m) THEN descend ELSE Return(tr)]
  /\ UNCHANGED <<config, policy, rs>>

\* The loop over the non-self children: PruneMap is entered for child c, or
\* past the last child PruneMapForSelfChild is entered for child 0.  Both
\* return at once on an empty map.
QueryChildLoop(t) ==
  /\ At(t, "child_loop")
  /\ LET tr == trav[t]
         a == Top(tr)
         m == a.referenceMap
     IN  trav' = [trav EXCEPT ![t] = ReplaceTop(tr,
           IF a.c < NumChildren(queryTree, a.queryNode)
           THEN [a EXCEPT !.childMap = EmptyMap, !.it = MapEnd,
                          !.pc = IF DOMAIN m = {} THEN "pm_call"
                                 ELSE "pm_bucket"]
           ELSE [a EXCEPT !.c = 0, !.it = MapEnd,
                          !.pc = IF DOMAIN m = {} THEN "self_call"
                                 ELSE "ps_bucket"])]
  /\ UNCHANGED <<config, policy, rs>>

\* PruneMap whose bucket loop does not stop at the leaf sentinel: the leaf
\* frames are rescored and scored like the others before the copy.
PruneMapBucketAllScales(t) ==
  /\ At(t, "pm_bucket")
  /\ LET tr == trav[t]
         a == Top(tr)
         m == a.referenceMap
     IN  trav' = [trav EXCEPT ![t] = ReplaceTop(tr,
           IF ~RAtEnd(m, a.it)
           THEN [a EXCEPT !.childMap = MapPut(@, RDeref(m, a.it), << >>),
                          !.j = 0, !.pc = "pm_frame"]
           ELSE LET m1 == IF INT_MIN \in DOMAIN m THEN m
                          ELSE MapPut(m, INT_MIN, << >>)
                IN  [a EXCEPT !.referenceMap = m1,
                              !.childMap = MapPut(@, INT_MIN, m1[INT_MIN]),
                              !.it = MapEnd, !.pc = "pm_call"])]
  /\ UNCHANGED <<config, policy, rs>>

\* ---------------------------------------------------------------- PruneMap
\* PruneMap without its last statement: the child map gets no copy of the
\* leaf bucket.
PruneMapBucketNoLeafCopy(t) ==
  /\ At(t, "pm_bucket")
  /\ LET tr == trav[t]
         a == Top(tr)
         m == a.referenceMap
     IN  trav' = [trav EXCEPT ![t] = ReplaceTop(tr,
           IF ~RAtEnd(m, a.it) /\ RDeref(m, a.it) # INT_MIN
           THEN [a EXCEPT !.childMap = MapPut(@, RDeref(m, a.it), << >>),
                          !.j = 0, !.pc = "pm_frame"]
           ELSE [a EXCEPT !.it = MapEnd, !.pc = "pm_call"])]
  /\ UNCHANGED <<config, policy, rs>>

\* The loop over the non-leaf buckets, coarsest first; after it the leaf
\* bucket is copied: childMap[INT_MIN] = referenceMap[INT_MIN], where
\* operator[] creates the bucket in either map when it is absent.
PruneMapBucket(t) ==
  /\ At(t, "pm_bucket")
  /\ LET tr == trav[t]
         a == Top(tr)
         m == a.referenceMap
     IN  trav' = [trav EXCEPT ![t] = ReplaceTop(tr,
           IF ~RAtEnd(m, a.it) /\ RDeref(m, a.it) # INT_MIN
           THEN [a EXCEPT !.childMap = MapPut(@, RDeref(m, a.it), << >>),
                          !.j = 0, !.pc = "pm_frame"]
           ELSE LET m1 == IF INT_MIN \in DOMAIN m THEN m
                          ELSE MapPut(m, INT_MIN, << >>)
                IN  [a EXCEPT !.referenceMap = m1,
                              !.childMap = MapPut(@, INT_MIN, m1[INT_MIN]),
                              !.it = MapEnd, !.pc = "pm_call"])]
  /\ UNCHANGED <<config, policy, rs>>

\* PruneMap without the continue after a Rescore prune: the pruned frame is
\* counted and still goes on to its base case and Score.
PruneMapRescoreNoContinue(t) ==
  /\ At(t, "pm_frame")
  /\ LET tr == trav[t]
         a == Top(tr)
         m == a.referenceMap
         thisScale == RDeref(m, a.it)
         scaleVector == m[thisScale]
         candidateQueryNode == Child(queryTree, a.queryNode, a.c)
     IN  IF a.j >= Len(scaleVector)
         THEN /\ trav' = [trav EXCEPT ![t] = ReplaceTop(tr,
                   [a EXCEPT !.childMap =
                                IF @[thisScale] = << >>
                                THEN MapErase(@, thisScale) ELSE @,
                             !.it = thisScale, !.j = 0, !.pc = "pm_bucket"])]
              /\ UNCHANGED policy
         ELSE LET frame == scaleVector[a.j + 1]
                  refNode == frame.referenceNode
              IN  \E score \in
                       RescoreOutcomes(candidateQueryNode, refNode, frame.score) :
                    /\ policy' = Rescored(candidateQueryNode, refNode,
                                          frame.score, score)
                    /\ trav' = [trav EXCEPT ![t] =
                         [(IF score = DBL_MAX
                           THEN ReplaceTop(
                                  Pruned(tr, 1,
                                         PairsUnder(candidateQueryNode, refNode)),
                                  [a EXCEPT !.pc = "pm_score"])
                           ELSE ReplaceTop(tr, [a EXCEPT !.pc = "pm_score"]))
                          EXCEPT !.nRescore = @ + 1]]
  /\ UNCHANGED <<config, rs>>

\* The frame loop of one bucket: past its last frame a bucket that stayed
\* empty is struck from the child map; else the frame is rescored against
\* the candidate query child.
PruneMapRescore(t) ==
  /\ At(t, "pm_frame")
  /\ LET tr == trav[t]
         a == Top(tr)
         m == a.referenceMap
         thisScale == RDeref(m, a.it)
         scaleVector == m[thisScale]
         candidateQueryNode == Child(queryTree, a.queryNode, a.c)
     IN  IF a.j >= Len(scaleVector)
         THEN /\ trav' = [trav EXCEPT ![t] = ReplaceTop(tr,
                   [a EXCEPT !.childMap =
                                IF @[thisScale] = << >>
                                THEN MapErase(@, thisScale) ELSE @,
                             !.it = thisScale, !.j = 0, !.pc = "pm_bucket"])]
              /\ UNCHANGED policy
         ELSE LET frame == scaleVector[a.j + 1]
                  refNode == frame.referenceNode
              IN  \E score \in
                       RescoreOutcomes(candidateQueryNode, refNode, frame.score) :
                    /\ policy' = Rescored(candidateQueryNode, refNode,
                                          frame.score, score)
                    /\ trav' = [trav EXCEPT ![t] =
                         [(IF score = DBL_MAX
                           THEN ReplaceTop(
                                  Pruned(tr, 1,
                                         PairsUnder(candidateQueryNode, refNode)),
                                  [a EXCEPT !.j = @ + 1])
                           ELSE ReplaceTop(tr, [a EXCEPT !.pc = "pm_score"]))
                          EXCEPT !.nRescore = @ + 1]]
  /\ UNCHANGED <<config, rs>>

\* PruneMap without the update of queryIndex: the kept frame gets the new
\* score and base case but keeps the query index it came with.
PruneMapScoreStaleIndex(t) ==
  /\ At(t, "pm_score")
  /\ LET tr == trav[t]
         a == Top(tr)
         m == a.referenceMap
         thisScale == RDeref(m, a.it)
         frame == m[thisScale][a.j + 1]
         refNode == frame.referenceNode
         candidateQueryNode == Child(queryTree, a.queryNode, a.c)
         queryPoint == Point(queryTree, candidateQueryNode)
         refPoint == Point(referenceTree, refNode)
         baseCase == BaseCaseValue(queryPoint, refPoint)
         tr1 == BaseCase(tr, queryPoint, refPoint)
     IN  \E score \in ScoreOutcomes(candidateQueryNode, refNode, baseCase) :
           /\ policy' = Scored(candidateQueryNode, refNode, baseCase, score)
           /\ trav' = [trav EXCEPT ![t] =
                [(IF score = DBL_MAX
                  THEN ReplaceTop(
                         Pruned(tr1, 1, PairsUnder(candidateQueryNode, refNode)),
                         [a EXCEPT !.j = @ + 1, !.pc = "pm_frame"])
                  ELSE ReplaceTop(tr1,
                         [a EXCEPT !.childMap[thisScale] = Append(@,
                              MapEntry(refNode, score, refPoint, frame.queryIndex,
                                       baseCase)),
                            !.j = @ + 1, !.pc = "pm_frame"]))
                 EXCEPT !.nScore = @ + 1]]
  /\ UNCHANGED <<config, rs>>

\* A fresh base case for (child's point, reference node's point) and its
\* score; a frame that survives enters the child map with the new values.
PruneMapScore(t) ==
  /\ At(t, "pm_score")
  /\ LET tr == trav[t]
         a == Top(tr)
         m == a.referenceMap
         thisScale == RDeref(m, a.it)
         frame == m[thisScale][a.j + 1]
         refNode == frame.referenceNode
         candidateQueryNode == Child(queryTree, a.queryNode, a.c)
         queryPoint == Point(queryTree, candidateQueryNode)
         refPoint == Point(referenceTree, refNode)
         baseCase == BaseCaseValue(queryPoint, refPoint)
         tr1 == BaseCase(tr, queryPoint, refPoint)
     IN  \E score \in ScoreOutcomes(candidateQueryNode, refNode, baseCase) :
           /\ policy' = Scored(candidateQueryNode, refNode, baseCase, score)
           /\ trav' = [trav EXCEPT ![t] =
                [(IF score = DBL_MAX
                  THEN ReplaceTop(
                         Pruned(tr1, 1, PairsUnder(candidateQueryNode, refNode)),
                         [a EXCEPT !.j = @ + 1, !.pc = "pm_frame"])
                  ELSE ReplaceTop(tr1,
                         [a EXCEPT !.childMap[thisScale] = Append(@,
                              MapEntry(refNode, score, refPoint, queryPoint,
                                       baseCase)),
                            !.j = @ + 1, !.pc = "pm_frame"]))
                 EXCEPT !.nScore = @ + 1]]
  /\ UNCHANGED <<config, rs>>

\* Traverse(queryNode.Child(i), childMap), the loop going on to child i + 1
\* when it returns.
TraverseChild(t) ==
  /\ At(t, "pm_call")
  /\ LET tr == trav[t]
         a == Top(tr)
         child == Child(queryTree, a.queryNode, a.c)
     IN  trav' = [trav EXCEPT ![t] =
           Push(ReplaceTop(tr, [a EXCEPT !.c = @ + 1, !.childMap = EmptyMap,
                                         !.pc = "child_loop"]),
                Activation(child, a.childMap, FALSE))]
  /\ UNCHANGED <<config, policy, rs>>


\* ---------------------------------------------------- PruneMapForSelfChild
\* The loop over the non-leaf buckets of the map itself: the bucket is
\* copied to scaleVector and cleared, to be refilled by the frame loop.
PruneMapForSelfChildBucket(t) ==
  /\ At(t, "ps_bucket")
  /\ LET tr == trav[t]
         a == Top(tr)
         m == a.referenceMap
     IN  trav' = [trav EXCEPT ![t] = ReplaceTop(tr,
           IF ~RAtEnd(m, a.it) /\ RDeref(m, a.it) # INT_MIN
           THEN [a EXCEPT !.scaleVector = m[RDeref(m, a.it)],
                          !.referenceMap[RDeref(m, a.it)] = << >>,
                          !.j = 0, !.pc = "ps_frame"]
           ELSE [a EXCEPT !.it = MapEnd, !.pc = "self_call"])]
  /\ UNCHANGED <<config, policy, rs>>

\* ++it after referenceMap.erase((*it).first).  The reverse iterator keeps
\* its base, the element after the erased one, so it now refers to the next
\* bucket and the increment steps over that bucket.  When no bucket is left
\* before the base the increment decrements begin(), which is undefined: a
\* fault, an iterator at rend(), or one wrapped around to rbegin().
AdvanceAfterErase(m, it) ==
  IF RAtEnd(m, it)
  THEN {[fault |-> TRUE, it |-> it], [fault |-> FALSE, it |-> it],
        [fault |-> FALSE, it |-> MapEnd]}
  ELSE {[fault |-> FALSE, it |-> RDeref(m, it)]}

\* The frame loop of one bucket.  Past the last frame an empty bucket is
\* erased (an empty map ends the function) and the iterator advances.  Else
\* a frame whose base case is not cached for the pair is rescored.
PruneMapForSelfChildRescore(t) ==
  /\ At(t, "ps_frame")
  /\ LET tr == trav[t]
         a == Top(tr)
         m == a.referenceMap
         key == RDeref(m, a.it)
         candidateQueryNode == Child(queryTree, a.queryNode, 0)
         done(m1, it, pc) ==
           [a EXCEPT !.referenceMap = m1, !.it = it, !.j = 0,
                     !.scaleVector = << >>, !.pc = pc]
     IN  IF a.j >= Len(a.scaleVector)
         THEN /\ IF m[key] = << >>
                 THEN LET m1 == MapErase(m, key) IN
                      IF DOMAIN m1 = {}
                      THEN trav' = [trav EXCEPT ![t] =
                             ReplaceTop(tr, done(m1, MapEnd, "self_call"))]
                      ELSE \E next \in AdvanceAfterErase(m1, a.it) :
                             trav' = [trav EXCEPT ![t] =
                               IF next.fault THEN Crashed(tr)
                               ELSE [ReplaceTop(tr, done(m1, next.it, "ps_bucket"))
                                       EXCEPT !.ub = @ \/ RAtEnd(m1, a.it)]]
                 ELSE trav' = [trav EXCEPT ![t] =
                        ReplaceTop(tr, done(m, key, "ps_bucket"))]
              /\ UNCHANGED policy
         ELSE LET frame == a.scaleVector[a.j + 1]
                  refNode == frame.referenceNode
              IN  IF CachedFor(tr, frame, Point(queryTree, candidateQueryNode),
                               Point(referenceTree, refNode))
                  THEN /\ trav' = [trav EXCEPT ![t] =
                            ReplaceTop(tr, [a EXCEPT !.pc = "ps_score"])]
                       /\ UNCHANGED policy
                  ELSE \E score \in RescoreOutcomes(candidateQueryNode, refNode,
                                                    frame.score) :
                         /\ policy' = Rescored(candidateQueryNode, refNode,
                                               frame.score, score)
                         /\ trav' = [trav EXCEPT ![t] =
                              [(IF score = DBL_MAX
                                THEN ReplaceTop(
                                       Pruned(tr, 1, PairsUnder(candidateQueryNode,
                                                               refNode)),
                                       [a EXCEPT !.j = @ + 1])
                                ELSE ReplaceTop(tr, [a EXCEPT !.pc = "ps_score"]))
                               EXCEPT !.nRescore = @ + 1]]
  /\ UNCHANGED <<config, rs>>

\* The base case (the cached one, or a fresh one after the rescore) and the
\* score against the self-child; a frame that survives goes back into its
\* bucket with the new values.
PruneMapForSelfChildScore(t) ==
  /\ At(t, "ps_score")
  /\ LET tr == trav[t]
         a == Top(tr)
         m == a.referenceMap
         key == RDeref(m, a.it)
         frame == a.scaleVector[a.j + 1]
         refNode == frame.referenceNode
         candidateQueryNode == Child(queryTree, a.queryNode, 0)
         queryPoint == Point(queryTree, candidateQueryNode)
         refPoint == Point(referenceTree, refNode)
         cached == CachedFor(tr, frame, queryPoint, refPoint)
         baseCase == IF cached THEN frame.baseCase
                     ELSE BaseCaseValue(queryPoint, refPoint)
         tr1 == IF cached THEN tr ELSE BaseCase(tr, queryPoint, refPoint)
     IN  \E score \in ScoreOutcomes(candidateQueryNode, refNode, baseCase) :
           /\ policy' = Scored(candidateQueryNode, refNode, baseCase, score)
           /\ trav' = [trav EXCEPT ![t] =
                [(IF score = DBL_MAX
                  THEN ReplaceTop(
                         Pruned(tr1, 1, PairsUnder(candidateQueryNode, refNode)),
                         [a EXCEPT !.j = @ + 1, !.pc = "ps_frame"])
                  ELSE ReplaceTop(tr1,
                         [a EXCEPT !.referenceMap[key] = Append(@,
                              MapEntry(refNode, score, refPoint, queryPoint,
                                       baseCase)),
                            !.j = @ + 1, !.pc = "ps_frame"]))
                 EXCEPT !.nScore = @ + 1]]
  /\ UNCHANGED <<config, rs>>

\* Traverse(queryNode.Child(0), referenceMap) on the map itself; when it
\* returns the query node, which is no leaf, returns too.
TraverseSelfChild(t) ==
  /\ At(t, "self_call")
  /\ LET tr == trav[t]
         a == Top(tr)
         child == Child(queryTree, a.queryNode, 0)
     IN  trav' = [trav EXCEPT ![t] =
           Push(ReplaceTop(tr, [a EXCEPT !.pc = "after_self"]),
                Activation(child, a.referenceMap, TRUE))]
  /\ UNCHANGED <<config, policy, rs>>

\* if (queryNode.Scale() != INT_MIN) return;
TraverseReturn(t) ==
  /\ At(t, "after_self")
  /\ trav' = [trav EXCEPT ![t] = Return(trav[t])]
  /\ UNCHANGED <<config, policy, rs>>

\* ------------------------------------------------- Traverse: leaf phase
\* The first bucket is taken as the vector of points.  On an empty map
\* *referenceMap.begin() is undefined: a fault, or a vector of no frames.
\* Log::Assert on the first key is recorded, not enforced.
LeafPhaseBegin(t) ==
  /\ At(t, "leaf_begin")
  /\ LET tr == trav[t]
         a == Top(tr)
         m == a.referenceMap
     IN  IF DOMAIN m = {}
         THEN \E fault \in BOOLEAN :
                trav' = [trav EXCEPT ![t] =
                  IF fault THEN Crashed(tr)
                  ELSE [Return(tr) EXCEPT !.ub = TRUE]]
         ELSE trav' = [trav EXCEPT ![t] =
                [ReplaceTop(tr, [a EXCEPT !.i = 0, !.pc = "leaf_frame"])
                   EXCEPT !.assertFailed = @ \/ Min(DOMAIN m) # INT_MIN]]
  /\ UNCHANGED <<config, policy, rs>>

\* The leaf loop without the test of the cached indices: every frame is
\* rescored.
LeafPhaseRescoreNoSkip(t) ==
  /\ At(t, "leaf_frame")
  /\ LET tr == trav[t]
         a == Top(tr)
         m == a.referenceMap
         pointVector == m[Min(DOMAIN m)]
     IN  IF a.i >= Len(pointVector)
         THEN /\ trav' = [trav EXCEPT ![t] = Return(tr)]
              /\ UNCHANGED policy
         ELSE LET frame == pointVector[a.i + 1]
                  refNode == frame.referenceNode
              IN  IF FALSE
                  THEN /\ trav' = [trav EXCEPT ![t] =
                            ReplaceTop(
                              Pruned(tr, 1, PairsUnder(a.queryNode, refNode)),
                              [a EXCEPT !.i = @ + 1])]
                       /\ UNCHANGED policy
                  ELSE \E rescore \in RescoreOutcomes(a.queryNode, refNode,
                                                      frame.score) :
                         /\ policy' = Rescored(a.queryNode, refNode,
                                               frame.score, rescore)
                         /\ trav' = [trav EXCEPT ![t] =
                              [(IF rescore = DBL_MAX
                                THEN ReplaceTop(
                                       Pruned(tr, 1,
                                              PairsUnder(a.queryNode, refNode)),
                                       [a EXCEPT !.i = @ + 1])
                                ELSE ReplaceTop(tr, [a EXCEPT !.pc = "leaf_base"]))
                               EXCEPT !.nRescore = @ + 1]]
  /\ UNCHANGED <<config, rs>>

\* The loop over the frames of the first bucket: a frame whose base case was
\* evaluated for this very pair is skipped and counted as pruned; any other
\* frame is rescored.
LeafPhaseRescore(t) ==
  /\ At(t, "leaf_frame")
  /\ LET tr == trav[t]
         a == Top(tr)
         m == a.referenceMap
         pointVector == m[Min(DOMAIN m)]
     IN  IF a.i >= Len(pointVector)
         THEN /\ trav' = [trav EXCEPT ![t] = Return(tr)]
              /\ UNCHANGED policy
         ELSE LET frame == pointVector[a.i + 1]
                  refNode == frame.referenceNode
              IN  IF CachedFor(tr, frame, Point(queryTree, a.queryNode),
                               Point(referenceTree, refNode))
                  THEN /\ trav' = [trav EXCEPT ![t] =
                            ReplaceTop(
                              Pruned(tr, 1, PairsUnder(a.queryNode, refNode)),
                              [a EXCEPT !.i = @ + 1])]
                       /\ UNCHANGED policy
                  ELSE \E rescore \in RescoreOutcomes(a.queryNode, refNode,
                                                      frame.score) :
                         /\ policy' = Rescored(a.queryNode, refNode,
                                               frame.score, rescore)
                         /\ trav' = [trav EXCEPT ![t] =
                              [(IF rescore = DBL_MAX
                                THEN ReplaceTop(
                                       Pruned(tr, 1,
                                              PairsUnder(a.queryNode, refNode)),
                                       [a EXCEPT !.i = @ + 1])
                                ELSE ReplaceTop(tr, [a EXCEPT !.pc = "leaf_base"]))
                               EXCEPT !.nRescore = @ + 1]]
  /\ UNCHANGED <<config, rs>>

\* The leaf loop without its last statement: the frame is passed over and
\* no base case is evaluated for it.
LeafPhaseNoBaseCase(t) ==
  /\ At(t, "leaf_base")
  /\ trav' = [trav EXCEPT ![t] =
                ReplaceTop(trav[t], [Top(trav[t]) EXCEPT !.i = @ + 1,
                                                         !.pc = "leaf_frame"])]
  /\ UNCHANGED <<config, policy, rs>>

\* rule.BaseCase(queryNode.Point(), referenceNode->Point())
LeafPhaseBaseCase(t) ==
  /\ At(t, "leaf_base")
  /\ LET tr == trav[t]
         a == Top(tr)
         m == a.referenceMap
         frame == m[Min(DOMAIN m)][a.i + 1]
     IN  trav' = [trav EXCEPT ![t] =
           ReplaceTop(
             BaseCase(tr, Point(queryTree, a.queryNode),
                      Point(referenceTree, frame.referenceNode)),
             [a EXCEPT !.i = @ + 1, !.pc = "leaf_frame"])]
  /\ UNCHANGED <<config, policy, rs>>

\* One step of traverser t.
TraverserStep(t) ==
  \/ Traverse2(t)
  \/ TraverseEnter(t)
  \/ ReferenceRecursionLoop(t)
  \/ ReferenceRecursionRescore(t)
  \/ ReferenceRecursionScore(t)
  \/ ReferenceRecursionSelfChild(t)
  \/ ReferenceRecursionChild(t)
  \/ QueryDescent(t)
  \/ QueryChildLoop(t)
  \/ PruneMapBucket(t)
  \/ PruneMapRescore(t)
  \/ PruneMapScore(t)
  \/ TraverseChild(t)
  \/ PruneMapForSelfChildBucket(t)
  \/ PruneMapForSelfChildRescore(t)
  \/ PruneMapForSelfChildScore(t)
  \/ TraverseSelfChild(t)
  \/ TraverseReturn(t)
  \/ LeafPhaseBegin(t)
  \/ LeafPhaseRescore(t)
  \/ LeafPhaseBaseCase(t)

Finished(t) == trav[t].status \in {"done", "crashed"}

\* ------------------------------------------------- the traversal alone
\* A caller constructs traverser t on its own rule object and calls
\* Traverse on the two roots, one traverser after the other.
NewTraverser(t) ==
  /\ trav[t].status = "idle"
  /\ t > 1 => Finished(t - 1)
  /\ trav' = [trav EXCEPT ![t] =
                DualTreeTraverser(@, (t = 1) \/ ~ablation)]
  /\ UNCHANGED <<config, policy, rs>>

IdentitySet(tree) == [i \in TreePoints(tree) |-> i]

\* The ranges tried with a sound policy: the pairs of equal points, and the
\* pairs with reference point 0.
SoundRanges(qSet, rSet) ==
  { {p \in (DOMAIN qSet) \X (DOMAIN rSet) : p[1] = p[2]},
    {p \in (DOMAIN qSet) \X (DOMAIN rSet) : p[2] = 0} }

\* The traversal starts on one of the tree pairs, either under a policy that
\* is free to prune any node pair (every point pair is in range, so that
\* every base case shows in the results) or, when `sounds` allows it, under
\* a sound policy.
InitTraversalOn(pairs, abl, sounds) ==
  /\ \E pair \in pairs :
       /\ queryTree = pair[1]
       /\ referenceTree = pair[2]
  /\ querySet = IdentitySet(queryTree)
  /\ referenceSet = IdentitySet(referenceTree)
  /\ sound \in sounds
  /\ IF sound
     THEN inRange \in SoundRanges(querySet, referenceSet)
     ELSE inRange = (DOMAIN querySet) \X (DOMAIN referenceSet)
  /\ ablation = abl
  /\ policy = NoPolicy
  /\ trav = [t \in Runs |-> IdleTraverser]
  /\ rs = NoRangeSearch

InitTraversal(abl, sounds) == InitTraversalOn(TreePairs, abl, sounds)

Init == InitTraversal(FALSE, {FALSE})

Next == \E t \in Runs : NewTraverser(t) \/ TraverserStep(t)

Spec == Init /\ [][Next]_vars

\* ============================================================ RangeSearch
\* A tree pointer member holds "uninit" (no constructor assigned it),
\* "null", "built" (new TreeType from a point set), "cloned" (new TreeType
\* copied from the reference tree) or "caller" (supplied by the caller).
OwnTree == {"built", "cloned"}

\* No tree object.
NoTree == [scale |-> << >>, point |-> << >>, children |-> << >>]

\* The searches with a query set of their own: the tree shapes over the two
\* sets and the original-index pairs whose distance lies in the range.
TwoSetInputs ==
  { [q |-> TreeLeaf, r |-> TreeTwo, range |-> {}],
    [q |-> TreeLeaf, r |-> TreeChain, range |-> {<<0, 0>>}],
    [q |-> TreeChain, r |-> TreeTwo, range |-> {<<0, 1>>}],
    [q |-> TreeTwo, r |-> TreeLeaf, range |-> {<<1, 0>>}],
    [q |-> TreeTwo, r |-> TreeTwo, range |-> {<<0, 1>>, <<1, 0>>}] }

\* The searches of a reference set against itself.
OneSetInputs ==
  { [r |-> TreeChain, range |-> {<<0, 0>>}],
    [r |-> TreeTwo, range |-> {<<0, 0>>, <<1, 1>>}] }

\* The flags a constructor received and the members its initialiser list
\* derives from them.
Flags(argNaive, argSingleMode, treeOwner, hasQuerySet, naive, singleMode) ==
  [argNaive |-> argNaive, argSingleMode |-> argSingleMode,
   treeOwner |-> treeOwner, hasQuerySet |-> hasQuerySet, naive |-> naive,
   singleMode |-> singleMode]

\* The members of RangeSearch, with the deletes the destructor performed on
\* each pointer (`unassigned` counts deletes of an indeterminate pointer)
\* and the leaf size the constructor was called with (1 when it takes none).
RangeSearch(ctor, flags, refPtr, queryPtr, oldFromNewR, oldFromNewQ) ==
  [state |-> "alive", ctor |-> ctor, argNaive |-> flags.argNaive,
   argSingleMode |-> flags.argSingleMode, treeOwner |-> flags.treeOwner,
   hasQuerySet |-> flags.hasQuerySet, naive |-> flags.naive,
   singleMode |-> flags.singleMode,
   referenceTree |-> refPtr, queryTree |-> queryPtr,
   oldFromNewReferences |-> oldFromNewR, oldFromNewQueries |-> oldFromNewQ,
   numPrunes |-> 0, pc |-> "idle", searches |-> 0, strategy |-> "none",
   executed |-> {}, i |-> 0, j |-> 0, leafSize |-> 1,
   neighbors |-> << >>, distances |-> << >>,
   deleted |-> [referenceTree |-> 0, queryTree |-> 0, unassigned |-> 0]]

\* The state every constructor leaves behind: the object, its data members
\* and one unused rule object per Search call to come.
Constructed(object, qTree, rTree, qSet, rSet, range) ==
  /\ rs' = object
  /\ queryTree' = qTree
  /\ referenceTree' = rTree
  /\ querySet' = qSet
  /\ referenceSet' = rSet
  /\ inRange' = range
  /\ trav' = [t \in Runs |->
                NewRules(Cardinality(DOMAIN qSet), Cardinality(DOMAIN rSet))]
  /\ UNCHANGED <<sound, ablation, policy>>

\* RangeSearch(referenceSet, querySet, naive, singleMode, leafSize, metric).
\* The tree builder reorders the copy of a set it builds a tree over and
\* fills the old-from-new mapping; queryTree is assigned in dual-tree mode
\* only and referenceTree outside naive mode only.  leafSize is handed to the
\* tree builder as it came and read nowhere else.
Construct1(naive, singleMode, leafSize) ==
  /\ rs.state = "none"
  /\ \E input \in TwoSetInputs :
     \E oldFromNewR \in Permutations(TreePoints(input.r)),
        oldFromNewQ \in Permutations(TreePoints(input.q)) :
       LET flags == Flags(naive, singleMode, ~naive, TRUE, naive,
                          ~naive /\ singleMode)
           object(refPtr, queryPtr, mapR, mapQ) ==
             [RangeSearch(1, flags, refPtr, queryPtr, mapR, mapQ)
                EXCEPT !.leafSize = leafSize]
       IN  IF ~naive
           THEN IF ~singleMode
                THEN Constructed(
                       object("built", "built", oldFromNewR, oldFromNewQ),
                       input.q, input.r, oldFromNewQ, oldFromNewR,
                       input.range)
                ELSE /\ oldFromNewQ = IdentitySet(input.q)
                     /\ Constructed(
                          object("built", "uninit", oldFromNewR, << >>),
                          NoTree, input.r, IdentitySet(input.q), oldFromNewR,
                          input.range)
           ELSE /\ oldFromNewQ = IdentitySet(input.q)
                /\ oldFromNewR = IdentitySet(input.r)
                /\ Constructed(
                     object("uninit", "uninit", << >>, << >>),
                     NoTree, NoTree, IdentitySet(input.q),
                     IdentitySet(input.r), input.range)

\* RangeSearch(referenceSet, naive, singleMode, leafSize, metric): the query
\* set is the reference copy, queryTree starts NULL and is a clone of the
\* reference tree in dual-tree mode.  leafSize goes to the tree builder.
Construct2(naive, singleMode, leafSize) ==
  /\ rs.state = "none"
  /\ \E input \in OneSetInputs :
     \E oldFromNewR \in Permutations(TreePoints(input.r)) :
       LET flags == Flags(naive, singleMode, ~naive, FALSE, naive,
                          ~naive /\ singleMode)
           object(refPtr, queryPtr, mapR) ==
             [RangeSearch(2, flags, refPtr, queryPtr, mapR, << >>)
                EXCEPT !.leafSize = leafSize]
       IN  IF ~naive
           THEN Constructed(
                  object("built", IF ~singleMode THEN "cloned" ELSE "null",
                         oldFromNewR),
                  IF ~singleMode THEN input.r ELSE NoTree, input.r,
                  oldFromNewR, oldFromNewR, input.range)
           ELSE /\ oldFromNewR = IdentitySet(input.r)
                /\ Constructed(
                     object("uninit", "null", << >>),
                     NoTree, NoTree, IdentitySet(input.r),
                     IdentitySet(input.r), input.range)

\* RangeSearch(referenceTree, queryTree, referenceSet, querySet, singleMode,
\* metric): both trees are the caller's.
Construct3(singleMode) ==
  /\ rs.state = "none"
  /\ \E input \in TwoSetInputs :
       Constructed(
         RangeSearch(3,
                     Flags(FALSE, singleMode, FALSE, TRUE, FALSE, singleMode),
                     "caller", "caller", << >>, << >>),
         input.q, input.r, IdentitySet(input.q), IdentitySet(input.r),
         input.range)

\* RangeSearch(referenceTree, referenceSet, singleMode, metric): the query
\* tree is cloned from the caller's reference tree in dual-tree mode.
Construct4(singleMode) ==
  /\ rs.state = "none"
  /\ \E input \in OneSetInputs :
       Constructed(
         RangeSearch(4,
                     Flags(FALSE, singleMode, FALSE, FALSE, FALSE, singleMode),
                     "caller", IF ~singleMode THEN "cloned" ELSE "null",
                     << >>, << >>),
         IF ~singleMode THEN input.r ELSE NoTree, input.r,
         IdentitySet(input.r), IdentitySet(input.r), input.range)

\* if (p) delete p; on pointer member `member` of object o.  An
\* indeterminate pointer compares as null or as non-null (`nonNull`).
DeleteIfSet(o, member, nonNull) ==
  IF o[member] = "null" THEN o
  ELSE IF o[member] = "uninit"
    THEN IF nonNull THEN [o EXCEPT !.deleted.unassigned = @ + 1] ELSE o
    ELSE [o EXCEPT !.deleted[member] = @ + 1]

\* delete p; on pointer member `member` of object o.
Delete(o, member) ==
  IF o[member] = "null" THEN o
  ELSE IF o[member] = "uninit"
    THEN [o EXCEPT !.deleted.unassigned = @ + 1]
    ELSE [o EXCEPT !.deleted[member] = @ + 1]

\* The values an if (p) test may see for pointer member `member`.
ReadsNonNull(o, member) ==
  IF o[member] = "uninit" THEN BOOLEAN ELSE {o[member] # "null"}

\* RangeSearch::~RangeSearch
Destroy ==
  /\ rs.state = "alive"
  /\ rs.pc = "idle"
  /\ \E refNonNull \in ReadsNonNull(rs, "referenceTree"),
        queryNonNull \in ReadsNonNull(rs, "queryTree") :
       LET owned == IF rs.treeOwner
                    THEN DeleteIfSet(
                           DeleteIfSet(rs, "referenceTree", refNonNull),
                           "queryTree", queryNonNull)
                    ELSE rs
           cloned == IF ~rs.treeOwner /\ ~rs.hasQuerySet
                        /\ ~(rs.singleMode \/ rs.naive)
                     THEN Delete(owned, "queryTree")
                     ELSE owned
       IN  rs' = [cloned EXCEPT !.state = "destroyed"]
  /\ UNCHANGED <<config, policy, trav>>

\* The branches taken in the order single-tree, naive, dual-tree, on the
\* single-mode flag as the caller passed it.
StrategySingleFirst(o) ==
  IF o.argSingleMode THEN "single" ELSE IF o.naive THEN "naive" ELSE "dual"

\* The branch of Search that runs: if (naive) ... else if (singleMode) ...
\* else the dual-tree recursion.
Strategy(o) ==
  IF o.naive THEN "naive" ELSE IF o.singleMode THEN "single" ELSE "dual"

\* The leaf sizes a caller passes: a negative one (which the size_t
\* parameter receives as a huge positive value), zero and a positive one.
LeafSizes == {-1, 0, 1}

\* The contents a caller's output container may hold when Search is called.
CallerContainers == {<< >>, [i \in {0} |-> <<7>>]}

\* The rule object and the traverser of the Search call in progress.
Current == rs.searches + 1

\* Search without its first assignment: numPrunes keeps the count of the
\* call before.
SearchBeginNoReset(held) ==
  /\ rs.state = "alive"
  /\ rs.pc = "idle"
  /\ rs.searches < MaxRuns
  /\ LET strategy == Strategy(rs)
         rules == NewRules(Cardinality(DOMAIN querySet),
                           Cardinality(DOMAIN referenceSet))
         valid == /\ strategy \in {"single", "dual"} =>
                       rs.referenceTree \notin {"uninit", "null"}
                  /\ strategy = "dual" =>
                       rs.queryTree \notin {"uninit", "null"}
         o == [rs EXCEPT
                 !.strategy = strategy, !.pc = strategy,
                 !.executed = {}, !.i = 0, !.j = 0,
                 !.neighbors = IF rs.treeOwner THEN held ELSE rules.neighbors,
                 !.distances =
                    IF rs.treeOwner /\ ~(rs.singleMode /\ rs.hasQuerySet)
                    THEN held ELSE rules.distances]
     IN  /\ rs' = IF valid THEN o ELSE [o EXCEPT !.state = "crashed"]
         /\ trav' = [trav EXCEPT ![Current] =
                       IF strategy = "dual"
                       THEN DualTreeTraverser(rules, TRUE)
                       ELSE rules]
  /\ UNCHANGED <<config, policy>>

\* Search up to the mode branch: numPrunes = 0, the containers the rules
\* write to are cleared and resized (the caller's own ones when no
\* temporary is allocated), and the mode is chosen.  The single-tree branch
\* dereferences referenceTree, the dual-tree branch both tree pointers: a
\* pointer that is null or was never assigned faults.
SearchBegin(held) ==
  /\ rs.state = "alive"
  /\ rs.pc = "idle"
  /\ rs.searches < MaxRuns
  /\ LET strategy == Strategy(rs)
         rules == NewRules(Cardinality(DOMAIN querySet),
                           Cardinality(DOMAIN referenceSet))
         valid == /\ strategy \in {"single", "dual"} =>
                       rs.referenceTree \notin {"uninit", "null"}
                  /\ strategy = "dual" =>
                       rs.queryTree \notin {"uninit", "null"}
         o == [rs EXCEPT
                 !.numPrunes = 0, !.strategy = strategy, !.pc = strategy,
                 !.executed = {}, !.i = 0, !.j = 0,
                 !.neighbors = IF rs.treeOwner THEN held ELSE rules.neighbors,
                 !.distances =
                    IF rs.treeOwner /\ ~(rs.singleMode /\ rs.hasQuerySet)
                    THEN held ELSE rules.distances]
     IN  /\ rs' = IF valid THEN o ELSE [o EXCEPT !.state = "crashed"]
         /\ trav' = [trav EXCEPT ![Current] =
                       IF strategy = "dual"
                       THEN DualTreeTraverser(rules, TRUE)
                       ELSE rules]
  /\ UNCHANGED <<config, policy>>

\* The naive loops with the inner bound one short: the last reference
\* point is never paired.
NaiveStepShort ==
  /\ rs.state = "alive"
  /\ rs.pc = "naive"
  /\ LET nq == Cardinality(DOMAIN querySet)
         nr == Cardinality(DOMAIN referenceSet)
         last == rs.j + 2 >= nr
     IN  /\ trav' = [trav EXCEPT ![Current] =
                       IF rs.j + 1 < nr THEN BaseCase(@, rs.i, rs.j) ELSE @]
         /\ rs' = [rs EXCEPT
                     !.executed = @ \cup {"naive"},
                     !.j = IF last THEN 0 ELSE @ + 1,
                     !.i = IF last THEN @ + 1 ELSE @,
                     !.pc = IF last /\ rs.i + 1 >= nq THEN "remap" ELSE @]
  /\ UNCHANGED <<config, policy>>

\* One pass of the inner naive loop: rules.BaseCase(i, j).
NaiveStep ==
  /\ rs.state = "alive"
  /\ rs.pc = "naive"
  /\ LET nq == Cardinality(DOMAIN querySet)
         nr == Cardinality(DOMAIN referenceSet)
         last == rs.j + 1 >= nr
     IN  /\ trav' = [trav EXCEPT ![Current] = BaseCase(@, rs.i, rs.j)]
         /\ rs' = [rs EXCEPT
                     !.executed = @ \cup {"naive"},
                     !.j = IF last THEN 0 ELSE @ + 1,
                     !.i = IF last THEN @ + 1 ELSE @,
                     !.pc = IF last /\ rs.i + 1 >= nq THEN "remap" ELSE @]
  /\ UNCHANGED <<config, policy>>

\* SingleTreeTraverser::Traverse(queryIndex, node): a pruned node is counted
\* and left, a leaf gets its base case, an inner node has every child
\* visited.  `pruned` holds the (query point, node) pairs the policy prunes.
RECURSIVE SingleTreeTraverse(_, _, _, _)
RECURSIVE SingleTreeChildren(_, _, _, _, _)
SingleTreeTraverse(tr, queryIndex, node, pruned) ==
  IF <<queryIndex, node>> \in pruned
  THEN [tr EXCEPT !.numPrunes = @ + 1, !.nScore = @ + 1]
  ELSE IF NumChildren(referenceTree, node) = 0
    THEN BaseCase([tr EXCEPT !.nScore = @ + 1], queryIndex,
                  Point(referenceTree, node))
    ELSE SingleTreeChildren([tr EXCEPT !.nScore = @ + 1], queryIndex, node,
                            0, pruned)

SingleTreeChildren(tr, queryIndex, node, c, pruned) ==
  IF c >= NumChildren(referenceTree, node) THEN tr
  ELSE SingleTreeChildren(
         SingleTreeTraverse(tr, queryIndex, Child(referenceTree, node, c),
                            pruned),
         queryIndex, node, c + 1, pruned)

\* for (i = 0; i < querySet.n_cols; ++i) traverser.Traverse(i, *referenceTree)
RECURSIVE SingleTreeLoop(_, _, _)
SingleTreeLoop(tr, i, pruned) ==
  IF i >= Cardinality(DOMAIN querySet) THEN tr
  ELSE SingleTreeLoop(SingleTreeTraverse(tr, i, 1, pruned), i + 1, pruned)

\* The (query point, reference node) pairs a policy may prune: under a sound
\* policy those with no point of the node in range of the query point.
SinglePrunable ==
  {p \in (DOMAIN querySet) \X Nodes(referenceTree) :
     \/ ~sound
     \/ \A rp \in Descendants(referenceTree, p[2]) : ~Contains(p[1], rp)}

\* The single-tree branch of Search, the policy's decisions fixed by the
\* first call that asks for them.
SingleTreeSearch ==
  /\ rs.state = "alive"
  /\ rs.pc = "single"
  /\ \E pruned \in (IF policy.singleDecided THEN {policy.singlePruned}
                    ELSE SUBSET SinglePrunable) :
       LET tr == SingleTreeLoop(trav[Current], 0, pruned)
       IN  /\ trav' = [trav EXCEPT ![Current] = tr]
           /\ policy' = [policy EXCEPT !.singleDecided = TRUE,
                                       !.singlePruned = pruned]
           /\ rs' = [rs EXCEPT !.executed = @ \cup {"single"},
                               !.numPrunes = tr.numPrunes, !.pc = "remap"]
  /\ UNCHANGED config

\* The dual-tree branch of Search: the traverser runs on the two trees.
SearchDual ==
  /\ rs.state = "alive"
  /\ rs.pc = "dual"
  /\ TraverserStep(Current)

\* numPrunes = traverser.NumPrunes() once Traverse returned; a faulted
\* traversal ends the program.
SearchDualEnd ==
  /\ rs.state = "alive"
  /\ rs.pc = "dual"
  /\ Finished(Current)
  /\ rs' = IF trav[Current].status = "done"
           THEN [rs EXCEPT !.executed = @ \cup {"dual"},
                           !.numPrunes = trav[Current].numPrunes,
                           !.pc = "remap"]
           ELSE [rs EXCEPT !.state = "crashed"]
  /\ UNCHANGED <<config, policy, trav>>

\* The query column left where the rules wrote it, in every branch.
QueryMappingUnmapped(o, i) == i

\* size_t queryMapping = oldFromNewQueries[i] (two sets, dual-tree mode),
\* size_t refMapping = oldFromNewReferences[i] (one set), or the column
\* itself (references mapped only).
QueryMapping(o, i) ==
  IF o.hasQuerySet /\ ~o.singleMode THEN o.oldFromNewQueries[i]
  ELSE IF ~o.hasQuerySet THEN o.oldFromNewReferences[i]
  ELSE i

\* The mapping loops of Search over columns i, i + 1, ... of the rules'
\* containers, writing into the caller's containers `out`.
RECURSIVE MapColumns(_, _, _, _)
MapColumns(o, tr, out, i) ==
  IF i >= Cardinality(DOMAIN tr.distances) THEN out
  ELSE LET col == QueryMapping(o, i)
           mapped == [j \in 1..Len(tr.distances[i]) |->
                        o.oldFromNewReferences[tr.neighbors[i][j]]]
       IN  MapColumns(o, tr,
                      [neighbors |-> [out.neighbors EXCEPT ![col] = mapped],
                       distances |->
                          [out.distances EXCEPT ![col] = tr.distances[i]]],
                      i + 1)

\* The end of Search without clear() and resize() on the caller's
\* containers: the mapping writes over what they held.
SearchRemapNoClear ==
  /\ rs.state = "alive"
  /\ rs.pc = "remap"
  /\ LET tr == trav[Current]
         empty == [i \in DOMAIN querySet |-> << >>]
         out == IF ~rs.treeOwner
                THEN [neighbors |-> tr.neighbors, distances |-> tr.distances]
                ELSE MapColumns(rs, tr,
                                [neighbors |-> rs.neighbors,
                                 distances |-> rs.distances], 0)
     IN  rs' = [rs EXCEPT !.neighbors = out.neighbors,
                          !.distances = out.distances,
                          !.pc = "idle", !.searches = @ + 1]
  /\ UNCHANGED <<config, policy, trav>>

\* The end of Search: without owned trees the rules wrote into the caller's
\* containers; else these are cleared, resized and filled by the mapping.
SearchRemap ==
  /\ rs.state = "alive"
  /\ rs.pc = "remap"
  /\ LET tr == trav[Current]
         empty == [i \in DOMAIN querySet |-> << >>]
         out == IF ~rs.treeOwner
                THEN [neighbors |-> tr.neighbors, distances |-> tr.distances]
                ELSE MapColumns(rs, tr,
                                [neighbors |-> empty, distances |-> empty], 0)
     IN  rs' = [rs EXCEPT !.neighbors = out.neighbors,
                          !.distances = out.distances,
                          !.pc = "idle", !.searches = @ + 1]
  /\ UNCHANGED <<config, policy, trav>>

InitRS ==
  /\ queryTree = NoTree
  /\ referenceTree = NoTree
  /\ querySet = << >>
  /\ referenceSet = << >>
  /\ inRange = {}
  /\ sound = TRUE
  /\ ablation = FALSE
  /\ policy = NoPolicy
  /\ trav = [t \in Runs |-> NewRules(0, 0)]
  /\ rs = NoRangeSearch

NextRS ==
  \/ \E naive \in BOOLEAN, singleMode \in BOOLEAN, leafSize \in LeafSizes :
       Construct1(naive, singleMode, leafSize)
  \/ \E naive \in BOOLEAN, singleMode \in BOOLEAN, leafSize \in LeafSizes :
       Construct2(naive, singleMode, leafSize)
  \/ \E singleMode \in BOOLEAN : Construct3(singleMode)
  \/ \E singleMode \in BOOLEAN : Construct4(singleMode)
  \/ \E held \in CallerContainers : SearchBegin(held)
  \/ NaiveStep
  \/ SingleTreeSearch
  \/ SearchDual
  \/ SearchDualEnd
  \/ SearchRemap
  \/ Destroy

SpecRS == InitRS /\ [][NextRS]_vars

\* The traversal alone, the second traverser with base-case reuse off.
InitAblation == InitTraversal(TRUE, BOOLEAN)

SpecAblation == InitAblation /\ [][Next]_vars

\* ------------------------------------------- traversals side by side
\* Two callers each construct a traverser on a rule object of their own and
\* run Traverse; their steps interleave in any order.  A caller whose
\* traversal ended may start another one.
StartTraverser(t) ==
  /\ trav[t].status = "idle"
  /\ Cardinality({u \in Runs : trav[u].status \in {"constructed", "running"}})
       < 2
  /\ trav' = [trav EXCEPT ![t] = DualTreeTraverser(@, TRUE)]
  /\ UNCHANGED <<config, policy, rs>>

\* The tree pairs traversed side by side.
ConcurrentPairs ==
  {<<TreeTwo, TreeLeaf>>, <<TreeTwo, TreeChain>>}

InitConcurrent ==
  /\ InitTraversal(FALSE, {FALSE})
  /\ <<queryTree, referenceTree>> \in ConcurrentPairs

NextConcurrent == \E t \in Runs : StartTraverser(t) \/ TraverserStep(t)

SpecConcurrent == InitConcurrent /\ [][NextConcurrent]_vars

\* ------------------------------------------- early termination
\* The stopping condition of the policy is met while a traversal runs: from
\* here on Score and Rescore return the prune sentinel for every call.
Stop ==
  /\ ~policy.stopped
  /\ \E t \in Runs : Running(t)
  /\ policy' = [policy EXCEPT !.stopped = TRUE]
  /\ UNCHANGED <<config, trav, rs>>

\* No traversal is started on a policy that has stopped already.
NextStop ==
  \/ Stop
  \/ \E t \in Runs : (~policy.stopped /\ NewTraverser(t)) \/ TraverserStep(t)

SpecStop == Init /\ [][NextStop]_vars

\* ============================================================= properties
\* The values of column q of a result container, as a set.
Column(container, q) == {container[q][k] : k \in 1..Len(container[q])}

\* The number of BaseCase calls of traverser t.
BaseCases(t) ==
  LET pairs == SetToSeq(DOMAIN trav[t].baseCalls)
  IN  SumSeq([k \in 1..Len(pairs) |-> trav[t].baseCalls[pairs[k]]])

\* |Q| times |R|
NumPairs == Cardinality(DOMAIN querySet) * Cardinality(DOMAIN referenceSet)

\* Both traversals ran to their end.
BothDone == trav[1].status = "done" /\ trav[2].status = "done"

\* The two traversals hold the same result set.
SameResults ==
  \A q \in DOMAIN trav[1].neighbors :
    /\ Column(trav[1].neighbors, q) = Column(trav[2].neighbors, q)
    /\ Column(trav[1].distances, q) = Column(trav[2].distances, q)

\* The (query, reference) pairs in the containers Search handed back.
ResultPairs ==
  UNION {{<<q, r>> : r \in Column(rs.neighbors, q)} : q \in DOMAIN rs.neighbors}

\* A Search call has returned to the caller.
Returned == rs.state = "alive" /\ rs.pc = "idle" /\ rs.searches > 0

\* The strategy the constructor flags ask for.
Expected ==
  IF rs.argNaive THEN "naive"
  ELSE IF rs.argSingleMode THEN "single" ELSE "dual"

\* The strategies the Search call in progress has executed code of.
Ran ==
  rs.executed \cup
    (IF trav[Current].status \in {"running", "done", "crashed"}
     THEN {"dual"} ELSE {})

\* C1: for a sound policy Search produces the same set of result pairs in
\* dual-tree, single-tree and naive mode: in every mode a Search call comes
\* back, and with the pairs the naive mode finds, those in range.
C1_ModesAgree ==
  /\ rs.state # "crashed"
  /\ Returned => ResultPairs = inRange

\* C2: during one dual-tree traversal BaseCase is invoked at most once for
\* every (query point, reference point) pair, whatever the tree shapes and
\* the prune decisions of the policy.
C2_BaseCaseAtMostOnce ==
  \A t \in Runs : \A p \in DOMAIN trav[t].baseCalls : trav[t].baseCalls[p] <= 1

C2_Witness ==
  \E t \in Runs :
    /\ trav[t].status = "done"
    /\ Cardinality(DOMAIN trav[t].baseCalls) >= 4
    /\ \A p \in DOMAIN trav[t].baseCalls : trav[t].baseCalls[p] = 1
    /\ trav[t].numPrunes > 0

\* C3: destroying a RangeSearch deletes exactly the trees the object itself
\* allocated (built or cloned), each once, and neither a tree of the caller
\* nor a pointer that was never assigned.
C3_DestructorDeletesOwnTrees ==
  rs.state = "destroyed" =>
    /\ \A member \in {"referenceTree", "queryTree"} :
         rs.deleted[member] = IF rs[member] \in OwnTree THEN 1 ELSE 0
    /\ rs.deleted.unassigned = 0

\* C4: when Search ran on trees the object built, the returned containers
\* are the raw output of the rules re-indexed to the input order, the query
\* column through oldFromNewQueries (two sets, dual-tree), through
\* oldFromNewReferences (one set) or unchanged (two sets, single-tree), and
\* so they hold the pairs in range under their original indices with their
\* distances; when no tree was built the raw output is returned as it is.
C4_Remapped ==
  Returned =>
    LET tr == trav[rs.searches]
        qmap(i) == IF rs.hasQuerySet /\ ~rs.singleMode
                   THEN rs.oldFromNewQueries[i]
                   ELSE IF ~rs.hasQuerySet THEN rs.oldFromNewReferences[i]
                   ELSE i
    IN  IF rs.treeOwner
        THEN /\ \A i \in DOMAIN tr.neighbors :
                  /\ Len(rs.neighbors[qmap(i)]) = Len(tr.neighbors[i])
                  /\ Len(rs.distances[qmap(i)]) = Len(tr.distances[i])
                  /\ \A j \in 1..Len(tr.neighbors[i]) :
                       /\ rs.neighbors[qmap(i)][j] =
                            rs.oldFromNewReferences[tr.neighbors[i][j]]
                       /\ rs.distances[qmap(i)][j] = tr.distances[i][j]
             /\ \A q \in DOMAIN rs.neighbors :
                \A j \in 1..Len(rs.neighbors[q]) :
                  /\ <<q, rs.neighbors[q][j]>> \in inRange
                  /\ rs.distances[q][j] = Metric(q, rs.neighbors[q][j])
             /\ ResultPairs = inRange
        ELSE /\ rs.neighbors = tr.neighbors
             /\ rs.distances = tr.distances

C4_Witness ==
  /\ Returned
  /\ rs.treeOwner /\ rs.hasQuerySet /\ ~rs.singleMode
  /\ rs.oldFromNewQueries # rs.oldFromNewReferences
  /\ rs.oldFromNewQueries[0] # 0
  /\ rs.neighbors # trav[rs.searches].neighbors
  /\ Cardinality(ResultPairs) >= 2

\* C5: one Search call executes exactly one of the three strategies: naive
\* if the naive flag was passed (whatever singleMode is), otherwise
\* single-tree if singleMode was passed, otherwise dual-tree.
C5_ModePrecedence ==
  (rs.state \in {"alive", "crashed"} /\ rs.pc # "idle") =>
    /\ rs.strategy = Expected
    /\ Ran \subseteq {Expected}
    /\ rs.pc = "remap" => Ran = {Expected}

C5_Witness ==
  /\ rs.state = "alive"
  /\ rs.argNaive /\ rs.argSingleMode
  /\ rs.pc = "remap"
  /\ Ran = {"naive"}

\* C6: in naive mode the constructor builds no tree and one Search call
\* invokes BaseCase exactly once for every (query index, reference index)
\* pair and never Score or Rescore.
C6_NaiveExhaustive ==
  (rs.state # "none" /\ rs.argNaive) =>
    /\ rs.referenceTree \notin OwnTree
    /\ rs.queryTree \notin OwnTree
    /\ \A t \in Runs :
         /\ trav[t].nScore = 0
         /\ trav[t].nRescore = 0
         /\ \A p \in DOMAIN trav[t].baseCalls :
              IF t <= rs.searches \/ (t = rs.searches + 1 /\ rs.pc = "remap")
              THEN trav[t].baseCalls[p] = 1
              ELSE trav[t].baseCalls[p] <= 1

C6_Witness ==
  /\ Returned
  /\ rs.argNaive
  /\ Cardinality(DOMAIN trav[1].baseCalls) >= 4
  /\ BaseCases(1) = NumPairs

\* C7, as stated: at the end of a dual-tree traversal the BaseCase
\* evaluations plus the point pairs under the pruned node pairs equal
\* |Q| times |R| exactly.
C7_AccountingExact ==
  \A t \in Runs :
    trav[t].status = "done" => BaseCases(t) + trav[t].credit = NumPairs

\* C7, amended: at the end of a dual-tree traversal every point pair was
\* evaluated by BaseCase or lies under a pruned node pair, so the BaseCase
\* evaluations plus the point pairs under the pruned node pairs are at least
\* |Q| times |R|; a pruned frame counts again the pair whose base case it
\* carried.
C7_AccountingCovers ==
  \A t \in Runs :
    trav[t].status = "done" =>
      /\ \A p \in DOMAIN trav[t].baseCalls :
           trav[t].baseCalls[p] > 0 \/ p \in trav[t].covered
      /\ BaseCases(t) + trav[t].credit >= NumPairs

C7_Witness ==
  \E t \in Runs :
    /\ trav[t].status = "done"
    /\ trav[t].credit > 0
    /\ BaseCases(t) < NumPairs
    /\ BaseCases(t) + trav[t].credit > NumPairs

C9_OrderIsHeuristic ==
  BothDone => (SameResults /\ trav[1].numPrunes = trav[2].numPrunes)

C9_Witness ==
  /\ BothDone
  /\ trav[1].order # trav[2].order
  /\ trav[1].numPrunes > 0
  /\ \E q \in DOMAIN trav[1].neighbors : trav[1].neighbors[q] # << >>

\* C10: Traverse(queryNode, referenceMap) entered with a frontier that has
\* no entries returns at once: no BaseCase, Score or Rescore call is made,
\* the prune count, the results and every caller's frame (its frontier
\* included) stay as they are, and no child of the query node is visited.
C10_EmptyFrontierReturns ==
  [][\A t \in Runs :
       (/\ At(t, "enter")
        /\ DOMAIN Top(trav[t]).referenceMap = {}
        /\ trav'[t] # trav[t]) =>
         LET n == Len(trav[t].stack)
         IN  /\ policy' = policy
             /\ trav'[t].baseCalls = trav[t].baseCalls
             /\ trav'[t].nScore = trav[t].nScore
             /\ trav'[t].nRescore = trav[t].nRescore
             /\ trav'[t].numPrunes = trav[t].numPrunes
             /\ trav'[t].neighbors = trav[t].neighbors
             /\ trav'[t].distances = trav[t].distances
             /\ trav'[t].stack = SubSeq(trav[t].stack, 1, n - 1)]_vars

C10_Witness ==
  \E t \in Runs :
    /\ trav[t].emptyReturns > 0
    /\ trav[t].status = "running"

\* C11: constructing a RangeSearch from point sets with a leaf size that is
\* zero or negative fails: the object does not come to life, no tree is
\* built for it and no Search call is made on it.
C11_LeafSizeRejected ==
  (rs.state # "none" /\ rs.ctor \in {1, 2} /\ rs.leafSize <= 0) =>
    /\ rs.state = "rejected"
    /\ rs.referenceTree \notin OwnTree
    /\ rs.queryTree \notin OwnTree
    /\ rs.pc = "idle"
    /\ rs.searches = 0

\* C12: the prune count of a RangeSearch is reset at the start of every
\* Search call and never accumulates: while a Search call is on its way to
\* the end of its mode branch the count is 0, and after a Search call
\* returned it is the count of the traverser of that call alone, 0 after a
\* naive Search.
C12_PruneCountPerSearch ==
  /\ (rs.state = "alive" /\ rs.pc \in {"naive", "single", "dual"}) =>
        rs.numPrunes = 0
  /\ Returned =>
        /\ rs.numPrunes = trav[rs.searches].numPrunes
        /\ rs.strategy = "naive" => rs.numPrunes = 0

C12_Witness ==
  /\ Returned
  /\ rs.searches = 2
  /\ rs.strategy = "dual"
  /\ trav[1].numPrunes > 0
  /\ rs.numPrunes = trav[2].numPrunes
  /\ rs.numPrunes < trav[1].numPrunes + trav[2].numPrunes

\* C13: the prune counter is local to a traverser: a traverser starts with
\* count 0, at every moment of two interleaved traversals the count of each
\* is the number of prunes its own steps counted (what it counts when it
\* runs alone), and no step of one traverser changes the count of another.
C13_CounterIsLocal ==
  /\ [](\A t \in Runs :
          /\ trav[t].status \in {"idle", "constructed"} =>
                trav[t].numPrunes = 0
          /\ trav[t].numPrunes = trav[t].ownPrunes)
  /\ [][\A t, u \in Runs :
          (trav'[t] # trav[t] /\ u # t) =>
            trav'[u].numPrunes = trav[u].numPrunes]_vars

C13_Witness ==
  /\ Running(1) /\ Running(2)
  /\ Len(trav[1].stack) > 1 /\ Len(trav[2].stack) > 1
  /\ trav[1].numPrunes > 0
  /\ trav[2].numPrunes > trav[1].numPrunes

\* C14: early termination through the policy: once the policy returns the
\* prune sentinel for every Score and Rescore call and has returned it to
\* the traversal, the traversal makes no further BaseCase call, and it ends
\* by returning to its caller, not by a fault.
C14_EarlyTermination ==
  /\ [](\A t \in Runs :
          (policy.pruning /\ Finished(t)) => trav[t].status = "done")
  /\ [][policy.pruning =>
          \A t \in Runs : trav'[t].baseCalls = trav[t].baseCalls]_vars

\* The point pairs under the node pairs for which a Score or a Rescore call
\* made so far returned the prune sentinel.
SentinelPairs ==
  UNION ({PairsUnder(k[1], k[2]) :
            k \in {x \in DOMAIN policy.score : policy.score[x] = DBL_MAX}}
         \cup
         {PairsUnder(k[1], k[2]) :
            k \in {x \in DOMAIN policy.rescore : policy.rescore[x] = DBL_MAX}})

\* C15: the dual-tree traversal loses no pair: when Traverse(queryRoot,
\* referenceRoot) has returned, every pair of a query point and a reference
\* point had its BaseCase invoked or lies under a node pair for which a
\* Score or Rescore call of the traversal returned the prune sentinel.
C15_NoLostPair ==
  (trav[1].status = "done" /\ trav[2].status = "idle") =>
    \A p \in DOMAIN trav[1].baseCalls :
      trav[1].baseCalls[p] > 0 \/ p \in SentinelPairs

C15_Witness ==
  /\ trav[1].status = "done" /\ trav[2].status = "idle"
  /\ Cardinality(DOMAIN trav[1].baseCalls) >= 4
  /\ \E p \in DOMAIN trav[1].baseCalls :
       trav[1].baseCalls[p] = 0 /\ p \in SentinelPairs
  /\ \E p \in DOMAIN trav[1].baseCalls :
       trav[1].baseCalls[p] > 0 /\ p \notin SentinelPairs
  /\ Cardinality(DOMAIN queryTree.scale) > 3

\* The frontier and the scale of the query node of traverser t at the
\* point where ReferenceRecursion has returned to Traverse.
FrontierKeys(t) == DOMAIN Top(trav[t]).referenceMap
QueryScale(t) == Scale(queryTree, Top(trav[t]).queryNode)

\* C16, as stated: whenever ReferenceRecursion returns to Traverse, every
\* scale key of the frontier is the leaf scale or greater than or equal to
\* the scale of the query node.
C16_KeysNotBelowQueryScale ==
  \A t \in Runs :
    At(t, "descent") =>
      \A k \in FrontierKeys(t) : k = INT_MIN \/ k >= QueryScale(t)

\* C16, amended: whenever ReferenceRecursion returns to Traverse, every
\* scale key of the frontier is less than or equal to the scale of the query
\* node: no bucket coarser than the query node is left, the finer ones and
\* the leaf bucket stay.
C16_KeysNotAboveQueryScale ==
  \A t \in Runs :
    At(t, "descent") => \A k \in FrontierKeys(t) : k <= QueryScale(t)

C16_Witness ==
  \E t \in Runs :
    /\ At(t, "descent")
    /\ trav[t].nScore > 0
    /\ QueryScale(t) \in FrontierKeys(t)
    /\ \E k \in FrontierKeys(t) : k # INT_MIN /\ k < QueryScale(t)

\* C17: whenever Traverse reaches the leaf phase, the frontier holds exactly
\* one bucket and its key is the leaf scale, so that the assertion on the
\* first key of the frontier never fails.
C17_LeafPhaseOneBucket ==
  \A t \in Runs :
    /\ At(t, "leaf_begin") => FrontierKeys(t) = {INT_MIN}
    /\ ~trav[t].assertFailed

\* C18: the frontier is not empty wherever the traversal reads its coarsest
\* or its finest key: at the loop test of ReferenceRecursion, in the frame
\* loop up to the erase of the coarsest bucket, at the query-descent test of
\* a query node that is no leaf, and at the bucket access of the leaf phase.
C18_FrontierNotEmptyAtReads ==
  \A t \in Runs :
    (\/ At(t, "rr_loop")
     \/ At(t, "rr_frame")
     \/ At(t, "descent") /\ QueryScale(t) # INT_MIN
     \/ At(t, "leaf_begin")) => FrontierKeys(t) # {}

\* The program points of the loop over the non-self query children: the
\* loop head, PruneMap and the call of Traverse on the child.  An activation
\* stays at the loop head while the child's traversal runs above it.
InChildLoop == {"child_loop", "pm_bucket", "pm_frame", "pm_score", "pm_call"}

\* C19: PruneMap has copy semantics: no step of the loop over the non-self
\* query children, PruneMap and the traversal of the child included, changes
\* the frontier of the query node whose children are visited: its scale
\* keys and its frames are those ReferenceRecursion left.
C19_PruneMapCopies ==
  [][\A t \in Runs :
       \A n \in 1..Len(trav[t].stack) :
         (trav[t].stack[n].pc \in InChildLoop /\ n <= Len(trav'[t].stack)) =>
           trav'[t].stack[n].referenceMap = trav[t].stack[n].referenceMap]_vars

\* C20: when PruneMapForSelfChild returns, every frame left in a non-leaf
\* bucket of the frontier has been filtered against the self-child: its
\* queryIndex is the self-child's point, its referenceIndex the point of its
\* reference node, and its score the value that Score(self-child, reference
\* node, base case) returned; no bucket is passed over, the one that follows
\* an erased bucket included.
C20_SelfChildFilterComplete ==
  \A t \in Runs :
    At(t, "self_call") =>
      LET a == Top(trav[t])
          m == a.referenceMap
          selfChild == Child(queryTree, a.queryNode, 0)
      IN  \A k \in (DOMAIN m) \ {INT_MIN} :
          \A j \in 1..Len(m[k]) :
            LET frame == m[k][j]
                call == <<selfChild, frame.referenceNode, frame.baseCase>>
            IN  /\ frame.queryIndex = Point(queryTree, selfChild)
                /\ frame.referenceIndex =
                     Point(referenceTree, frame.referenceNode)
                /\ call \in DOMAIN policy.score
                /\ policy.score[call] = frame.score

\* C21: no frontier holds an empty bucket: when PruneMap has returned, every
\* scale key of the child's frontier maps to at least one frame, and so
\* does every scale key of the frontier when PruneMapForSelfChild has
\* returned; a frontier in which no frame survived has no key.
C21_NoEmptyBucket ==
  \A t \in Runs :
    /\ At(t, "pm_call") =>
         \A k \in DOMAIN Top(trav[t]).childMap :
           Top(trav[t]).childMap[k] # << >>
    /\ At(t, "self_call") =>
         \A k \in FrontierKeys(t) : Top(trav[t]).referenceMap[k] # << >>

\* The frames of a frontier, and the frames held anywhere by traverser t:
\* in the frontier, the child map and the bucket copy of every call of
\* Traverse on its stack.
FramesOf(m) == UNION {{m[k][j] : j \in 1..Len(m[k])} : k \in DOMAIN m}
AllFrames(t) ==
  UNION {FramesOf(trav[t].stack[n].referenceMap)
           \cup FramesOf(trav[t].stack[n].childMap)
           \cup {trav[t].stack[n].scaleVector[j] :
                   j \in 1..Len(trav[t].stack[n].scaleVector)} :
         n \in 1..Len(trav[t].stack)}

\* The frame has the base case of the pair its indices name, and its
\* reference index is the point of its reference node.
Coherent(frame) ==
  /\ frame.baseCase = BaseCaseValue(frame.queryIndex, frame.referenceIndex)
  /\ frame.referenceIndex = Point(referenceTree, frame.referenceNode)

\* C22: cached base cases are coherent: every frame of every frontier has
\* the base case of the pair (queryIndex, referenceIndex) it names, and its
\* referenceIndex is the point of its reference node; ReferenceRecursion
\* calls BaseCase for a frame exactly when the frame's indices are not
\* (reference node's point, query node's point), and Score gets the cached
\* base case otherwise.
C22_CacheCoherent ==
  /\ [](\A t \in Runs : \A frame \in AllFrames(t) : Coherent(frame))
  /\ [][\A t \in Runs :
          (At(t, "rr_base") /\ trav'[t] # trav[t]) =>
            LET a == Top(trav[t])
                frame == a.referenceMap[Max(DOMAIN a.referenceMap)][a.i + 1]
                refPoint == Point(referenceTree, frame.referenceNode)
                queryPoint == Point(queryTree, a.queryNode)
                same == /\ frame.referenceIndex = refPoint
                        /\ frame.queryIndex = queryPoint
                baseCase == IF same THEN frame.baseCase
                            ELSE BaseCaseValue(queryPoint, refPoint)
            IN  /\ trav'[t].baseCalls =
                     IF same THEN trav[t].baseCalls
                     ELSE [trav[t].baseCalls EXCEPT
                             ![<<queryPoint, refPoint>>] = @ + 1]
                /\ trav'[t].nScore = trav[t].nScore + 1
                /\ <<a.queryNode, frame.referenceNode, baseCase>>
                     \in DOMAIN policy'.score]_vars

C22_Witness ==
  \E t \in Runs :
    /\ At(t, "rr_base")
    /\ Len(trav[t].stack) > 1
    /\ Point(queryTree, Top(trav[t]).queryNode) # 0
    /\ \E f, g \in AllFrames(t) :
         /\ f.queryIndex # g.queryIndex
         /\ f.baseCase # g.baseCase

\* The frontier m2 is m with one more frame, f, at the back of bucket k.
Admitted(m, m2, k, f) ==
  /\ k \in DOMAIN m2
  /\ m2[k] = (IF k \in DOMAIN m THEN m[k] ELSE << >>) \o <<f>>
  /\ \A other \in (DOMAIN m \cup DOMAIN m2) \ {k} :
       other \in DOMAIN m /\ other \in DOMAIN m2 /\ m2[other] = m[other]

\* The frame ReferenceRecursion is expanding in traverser t.
ExpandedFrame(t) ==
  LET m == Top(trav[t]).referenceMap IN m[Max(DOMAIN m)][Top(trav[t]).i + 1]

\* The step of the non-self child j of the expanded frame: one BaseCase call
\* for (query point, child point), the child admitted iff its Score is not
\* the sentinel, one prune otherwise.
NonSelfChildStep(t) ==
  LET a == Top(trav[t])
      refNode == ExpandedFrame(t).referenceNode
      child == Child(referenceTree, refNode, a.j)
      queryPoint == Point(queryTree, a.queryNode)
      childPoint == Point(referenceTree, child)
      baseCase == BaseCaseValue(queryPoint, childPoint)
      key == <<a.queryNode, child, baseCase>>
      m2 == Top(trav'[t]).referenceMap
  IN  /\ trav'[t].baseCalls =
           [trav[t].baseCalls EXCEPT ![<<queryPoint, childPoint>>] = @ + 1]
      /\ key \in DOMAIN policy'.score
      /\ IF policy'.score[key] # DBL_MAX
         THEN /\ Admitted(a.referenceMap, m2, Scale(referenceTree, child),
                          MapEntry(child, policy'.score[key], childPoint,
                                   queryPoint, baseCase))
              /\ trav'[t].numPrunes = trav[t].numPrunes
         ELSE /\ m2 = a.referenceMap
              /\ trav'[t].numPrunes = trav[t].numPrunes + 1

\* C23 as stated: once the frame survived Rescore and Score, the self-child
\* is admitted with the parent's base case and no BaseCase call, whatever
\* its own Score; each non-self child gets one BaseCase call and is admitted
\* iff its Score is not the sentinel.
C23_SelfChildAlwaysAdmitted ==
  [][\A t \in Runs :
       /\ (At(t, "rr_self") /\ trav'[t] # trav[t]) =>
            LET a == Top(trav[t])
                refNode == ExpandedFrame(t).referenceNode
                child == Child(referenceTree, refNode, 0)
                key == <<a.queryNode, child, a.baseCase>>
            IN  /\ trav'[t].baseCalls = trav[t].baseCalls
                /\ key \in DOMAIN policy'.score
                /\ Admitted(a.referenceMap, Top(trav'[t]).referenceMap,
                            Scale(referenceTree, child),
                            MapEntry(child, policy'.score[key],
                                     Point(referenceTree, refNode),
                                     Point(queryTree, a.queryNode),
                                     a.baseCase))
       /\ (At(t, "rr_child") /\ trav'[t] # trav[t]
             /\ Top(trav[t]).j
                  < NumChildren(referenceTree, ExpandedFrame(t).referenceNode))
            => NonSelfChildStep(t)]_vars

\* C23 (amended): the self-child gets no BaseCase call and is scored with
\* the parent's base case; it is admitted with that base case iff its own
\* Score is not the sentinel and counts as one prune otherwise; each
\* non-self child gets exactly one BaseCase call and is admitted iff its
\* Score is not the sentinel.
C23_ChildrenAdmittedByScore ==
  [][\A t \in Runs :
       /\ (At(t, "rr_self") /\ trav'[t] # trav[t]) =>
            LET a == Top(trav[t])
                refNode == ExpandedFrame(t).referenceNode
                child == Child(referenceTree, refNode, 0)
                key == <<a.queryNode, child, a.baseCase>>
                m2 == Top(trav'[t]).referenceMap
            IN  /\ trav'[t].baseCalls = trav[t].baseCalls
                /\ key \in DOMAIN policy'.score
                /\ IF policy'.score[key] # DBL_MAX
                   THEN /\ Admitted(a.referenceMap, m2,
                                    Scale(referenceTree, child),
                                    MapEntry(child, policy'.score[key],
                                             Point(referenceTree, refNode),
                                             Point(queryTree, a.queryNode),
                                             a.baseCase))
                        /\ trav'[t].numPrunes = trav[t].numPrunes
                   ELSE /\ m2 = a.referenceMap
                        /\ trav'[t].numPrunes = trav[t].numPrunes + 1
       /\ (At(t, "rr_child") /\ trav'[t] # trav[t]
             /\ Top(trav[t]).j
                  < NumChildren(referenceTree, ExpandedFrame(t).referenceNode))
            => NonSelfChildStep(t)]_vars

\* The self-child of the expanded frame was scored with the sentinel and is
\* not in the frontier, and a non-self child is about to be handled.
C23_Witness ==
  \E t \in Runs :
    /\ At(t, "rr_child")
    /\ Top(trav[t]).j = 1
    /\ NumChildren(referenceTree, ExpandedFrame(t).referenceNode) > 1
    /\ LET a == Top(trav[t])
           child == Child(referenceTree, ExpandedFrame(t).referenceNode, 0)
           key == <<a.queryNode, child, a.baseCase>>
       IN  /\ key \in DOMAIN policy.score
           /\ policy.score[key] = DBL_MAX
           /\ \A f \in FramesOf(a.referenceMap) : f.referenceNode # child

\* C24: child pruning in ReferenceRecursion is all-or-nothing: when
\* Score(query node, reference node, base case) is the sentinel, the prune
\* count grows by the node's number of children, no child is added to the
\* frontier, and no BaseCase and no Score call is made for a child: the
\* next frame of the bucket is taken up.
C24_AllOrNothing ==
  [][\A t \in Runs :
       (At(t, "rr_base") /\ trav'[t] # trav[t]) =>
         LET a == Top(trav[t])
             refNode == ExpandedFrame(t).referenceNode
             key == <<a.queryNode, refNode, ExpandedFrame(t).baseCase>>
             a2 == Top(trav'[t])
         IN  (key \in DOMAIN policy'.score /\ policy'.score[key] = DBL_MAX)
             => /\ trav'[t].numPrunes =
                     trav[t].numPrunes + NumChildren(referenceTree, refNode)
                /\ a2.referenceMap = a.referenceMap
                /\ \A j \in 0..(NumChildren(referenceTree, refNode) - 1) :
                      LET child == Child(referenceTree, refNode, j)
                          pair == <<Point(queryTree, a.queryNode),
                                    Point(referenceTree, child)>>
                      IN  /\ trav'[t].baseCalls[pair] = trav[t].baseCalls[pair]
                          /\ \A k \in DOMAIN policy'.score :
                                k[2] = child /\ k[1] = a.queryNode
                                  => k \in DOMAIN policy.score
                /\ trav'[t].nScore = trav[t].nScore + 1
                /\ a2.pc = "rr_frame" /\ a2.i = a.i + 1]_vars

\* A reference node with two children was pruned by its Score: the frame
\* before the current one has the sentinel as the score of its node.
C24_Witness ==
  \E t \in Runs :
    /\ At(t, "rr_frame")
    /\ Top(trav[t]).i >= 1
    /\ trav[t].numPrunes >= 2
    /\ LET a == Top(trav[t])
           frame == a.referenceMap[Max(DOMAIN a.referenceMap)][a.i]
           key == <<a.queryNode, frame.referenceNode, frame.baseCase>>
       IN  /\ NumChildren(referenceTree, frame.referenceNode) = 2
           /\ key \in DOMAIN policy.score
           /\ policy.score[key] = DBL_MAX

\* What PruneMap makes of a parent's frame for the query child c, by the
\* answers the policy gave: kept iff Rescore and then Score were not the
\* sentinel, and then with the new score, base case and indices.
KeptFor(c, frame) ==
  LET baseCase == BaseCaseValue(Point(queryTree, c),
                                Point(referenceTree, frame.referenceNode))
  IN  /\ <<c, frame.referenceNode, frame.score>> \in DOMAIN policy.rescore
      /\ policy.rescore[<<c, frame.referenceNode, frame.score>>] # DBL_MAX
      /\ <<c, frame.referenceNode, baseCase>> \in DOMAIN policy.score
      /\ policy.score[<<c, frame.referenceNode, baseCase>>] # DBL_MAX
FilteredFor(c, frame) ==
  LET refPoint == Point(referenceTree, frame.referenceNode)
      baseCase == BaseCaseValue(Point(queryTree, c), refPoint)
  IN  MapEntry(frame.referenceNode,
               policy.score[<<c, frame.referenceNode, baseCase>>],
               refPoint, Point(queryTree, c), baseCase)
FilteredBucket(c, scaleVector) ==
  LET kept == SelectSeq(scaleVector, LAMBDA frame : KeptFor(c, frame))
  IN  [n \in 1..Len(kept) |-> FilteredFor(c, kept[n])]

\* C25: for a non-self query child c the non-leaf buckets of the frontier
\* PruneMap produces hold exactly the parent's non-leaf frames for which
\* Rescore against c and then Score against c with a fresh base case were
\* not the sentinel, each at its scale with the new score, base case and
\* indices; a frame Rescore pruned gets no BaseCase call, and each dropped
\* frame adds one to the prune count.
C25_PruneMapFilters ==
  /\ [](\A t \in Runs :
          At(t, "pm_call") =>
            LET a == Top(trav[t])
                c == Child(queryTree, a.queryNode, a.c)
                m == a.referenceMap
            IN  /\ DOMAIN a.childMap \ {INT_MIN} =
                     {k \in DOMAIN m \ {INT_MIN} :
                        FilteredBucket(c, m[k]) # << >>}
                /\ \A k \in DOMAIN a.childMap \ {INT_MIN} :
                      a.childMap[k] = FilteredBucket(c, m[k]))
  /\ [][\A t \in Runs :
          LET a == Top(trav[t])
              c == Child(queryTree, a.queryNode, a.c)
              frame == a.referenceMap[RDeref(a.referenceMap, a.it)][a.j + 1]
              pair == <<Point(queryTree, c),
                        Point(referenceTree, frame.referenceNode)>>
              rkey == <<c, frame.referenceNode, frame.score>>
              skey == <<c, frame.referenceNode, BaseCaseValue(pair[1], pair[2])>>
          IN  /\ (At(t, "pm_frame") /\ trav'[t] # trav[t]
                    /\ policy' # policy)
                   => /\ trav'[t].baseCalls = trav[t].baseCalls
                      /\ rkey \in DOMAIN policy'.rescore
                      /\ IF policy'.rescore[rkey] = DBL_MAX
                         THEN /\ trav'[t].numPrunes = trav[t].numPrunes + 1
                              /\ Top(trav'[t]).pc = "pm_frame"
                              /\ Top(trav'[t]).j = a.j + 1
                         ELSE /\ trav'[t].numPrunes = trav[t].numPrunes
                              /\ Top(trav'[t]).pc = "pm_score"
              /\ (At(t, "pm_score") /\ trav'[t] # trav[t])
                   => /\ trav'[t].baseCalls =
                           [trav[t].baseCalls EXCEPT ![pair] = @ + 1]
                      /\ skey \in DOMAIN policy'.score
                      /\ trav'[t].numPrunes = trav[t].numPrunes +
                           (IF policy'.score[skey] = DBL_MAX THEN 1 ELSE 0)]_vars

\* PruneMap has ended for a child with a point of its own and kept a
\* non-leaf frame of the parent, with the child's point as its query index.
C25_Witness ==
  \E t \in Runs :
    /\ At(t, "pm_call")
    /\ LET a == Top(trav[t])
           c == Child(queryTree, a.queryNode, a.c)
       IN  /\ Point(queryTree, c) # Point(queryTree, a.queryNode)
           /\ \E k \in DOMAIN a.childMap \ {INT_MIN} :
                /\ a.childMap[k] # << >>
                /\ a.childMap[k][1].queryIndex # a.referenceMap[k][1].queryIndex

\* ------------------------------------------- the leaf bucket in PruneMap
\* Traversals of a two-point query tree over reference trees that leave
\* none, one or two leaf frames in the frontier when the query root
\* descends.
FilterPairs ==
  {<<TreeTwo, TreeLeaf>>, <<TreeTwo, TreeChain>>, <<TreeTwo, TreeTall>>}

InitFilter == InitTraversalOn(FilterPairs, FALSE, {FALSE})

SpecFilter == InitFilter /\ [][Next]_vars

\* The frames a frontier holds at scale k, none if it has no such bucket.
Bucket(m, k) == IF k \in DOMAIN m THEN m[k] ELSE << >>

InPruneMap == {"pm_bucket", "pm_frame", "pm_score"}

\* C26: PruneMap carries the leaf-sentinel bucket over unchanged: the
\* child's leaf bucket holds the parent's leaf frames, in the same order and
\* with the same fields, and inside PruneMap no Rescore, BaseCase or Score
\* call is made for a frame of that bucket.
C26_LeafBucketCarried ==
  /\ [](\A t \in Runs :
          At(t, "pm_call") =>
            Bucket(Top(trav[t]).childMap, INT_MIN)
              = Bucket(Top(trav[t]).referenceMap, INT_MIN))
  /\ [][\A t \in Runs :
          (Running(t) /\ Top(trav[t]).pc \in InPruneMap
             /\ trav'[t] # trav[t]) =>
            LET a == Top(trav[t])
            IN  /\ Bucket(Top(trav'[t]).referenceMap, INT_MIN)
                     = Bucket(a.referenceMap, INT_MIN)
                /\ (\/ policy' # policy
                    \/ trav'[t].baseCalls # trav[t].baseCalls
                    \/ trav'[t].nScore # trav[t].nScore
                    \/ trav'[t].nRescore # trav[t].nRescore)
                   => RDeref(a.referenceMap, a.it) # INT_MIN]_vars

\* PruneMap has ended with two leaf frames carried over.
C26_Witness ==
  \E t \in Runs :
    /\ At(t, "pm_call")
    /\ Len(Bucket(Top(trav[t]).childMap, INT_MIN)) >= 2
    /\ Top(trav[t]).childMap[INT_MIN][1] # Top(trav[t]).childMap[INT_MIN][2]

\* Traverser t returns from its current call of Traverse in this step.
Returns(t) ==
  /\ Running(t)
  /\ trav'[t].status # "crashed"
  /\ Len(trav'[t].stack) = Len(trav[t].stack) - 1

\* Traverser t enters a call of Traverse in this step.
Recurses(t) ==
  /\ Running(t)
  /\ Len(trav'[t].stack) = Len(trav[t].stack) + 1

NonLeafTop(t) == Scale(queryTree, Top(trav[t]).queryNode) # INT_MIN

\* The calls on the stack of a traverser: a caller waits in its child loop
\* for the non-self child c - 1, which has a frontier of its own, or after
\* the self-call for child 0, which has the caller's frontier.
NestedInOrder(tr) ==
  \A n \in 1..(Len(tr.stack) - 1) :
    LET caller == tr.stack[n]
        callee == tr.stack[n + 1]
    IN  \/ /\ caller.pc = "child_loop"
           /\ caller.c - 1 \in 1..(NumChildren(queryTree, caller.queryNode) - 1)
           /\ callee.queryNode = Child(queryTree, caller.queryNode, caller.c - 1)
           /\ ~callee.shared
        \/ /\ caller.pc = "after_self"
           /\ callee.queryNode = Child(queryTree, caller.queryNode, 0)
           /\ callee.shared

\* The steps of the descent of a query node: the child loop starts at child
\* 1 and goes up by one with each recursion; PruneMapForSelfChild and the
\* self-call come when no non-self child is left; after the self-call the
\* call returns with no BaseCase and no Rescore call; the leaf phase is for
\* query leaves.
DescentSteps(t) ==
  LET a == Top(trav[t])
      a2 == Top(trav'[t])
      n == NumChildren(queryTree, a.queryNode)
  IN  /\ (At(t, "descent") /\ Running(t)' /\ a2.pc = "child_loop")
           => a2.c = 1
      /\ (At(t, "child_loop") /\ trav'[t] # trav[t]) =>
           IF a.c < n
           THEN a2.pc \in {"pm_bucket", "pm_call"} /\ a2.c = a.c
           ELSE a2.pc \in {"ps_bucket", "self_call"}
      /\ (Running(t) /\ a.pc \in InPruneMap /\ trav'[t] # trav[t]
            /\ Running(t)')
           => a2.c = a.c /\ Len(trav'[t].stack) = Len(trav[t].stack)
      /\ (At(t, "pm_call") /\ trav'[t] # trav[t]) =>
           /\ Recurses(t)
           /\ a2.queryNode = Child(queryTree, a.queryNode, a.c)
           /\ trav'[t].stack[Len(trav[t].stack)].c = a.c + 1
      /\ (At(t, "self_call") /\ trav'[t] # trav[t]) =>
           /\ Recurses(t)
           /\ a2.queryNode = Child(queryTree, a.queryNode, 0)
      /\ Recurses(t) => a.pc \in {"pm_call", "self_call"}
      /\ (At(t, "after_self") /\ trav'[t] # trav[t]) =>
           /\ Returns(t)
           /\ trav'[t].baseCalls = trav[t].baseCalls
           /\ trav'[t].nRescore = trav[t].nRescore
           /\ policy' = policy

LeafFrame(t) ==
  LET m == Top(trav[t]).referenceMap
  IN  m[Min(DOMAIN m)][Top(trav[t]).i + 1]

\* The steps of the leaf loop: a frame whose cached indices are this pair
\* is skipped and counted, with no call; another frame is rescored, a prune
\* is counted with no BaseCase call, and only a frame that was not pruned
\* gets its one BaseCase(query point, reference point) call.
LeafPhaseSteps(t) ==
  LET a == Top(trav[t])
      a2 == Top(trav'[t])
      frame == LeafFrame(t)
      refPoint == Point(referenceTree, frame.referenceNode)
      queryPoint == Point(queryTree, a.queryNode)
      rkey == <<a.queryNode, frame.referenceNode, frame.score>>
  IN  /\ (At(t, "leaf_frame") /\ trav'[t] # trav[t] /\ ~Returns(t)) =>
           /\ trav'[t].baseCalls = trav[t].baseCalls
           /\ IF frame.referenceIndex = refPoint
                 /\ frame.queryIndex = queryPoint
              THEN /\ policy' = policy
                   /\ trav'[t].nRescore = trav[t].nRescore
                   /\ trav'[t].numPrunes = trav[t].numPrunes + 1
                   /\ a2.pc = "leaf_frame" /\ a2.i = a.i + 1
              ELSE /\ trav'[t].nRescore = trav[t].nRescore + 1
                   /\ rkey \in DOMAIN policy'.rescore
                   /\ IF policy'.rescore[rkey] = DBL_MAX
                      THEN /\ trav'[t].numPrunes = trav[t].numPrunes + 1
                           /\ a2.pc = "leaf_frame" /\ a2.i = a.i + 1
                      ELSE /\ trav'[t].numPrunes = trav[t].numPrunes
                           /\ a2.pc = "leaf_base" /\ a2.i = a.i
      /\ (At(t, "leaf_base") /\ trav'[t] # trav[t]) =>
           /\ trav'[t].baseCalls =
                [trav[t].baseCalls EXCEPT ![<<queryPoint, refPoint>>] = @ + 1]
           /\ policy' = policy
           /\ trav'[t].numPrunes = trav[t].numPrunes
           /\ a2.pc = "leaf_frame" /\ a2.i = a.i + 1

\* The reference node of the BaseCase call a running traverser makes in
\* this step, by the place of the call.
BaseCaseNode(t) ==
  LET a == Top(trav[t])
  IN  CASE a.pc = "rr_child" ->
             Child(referenceTree, ExpandedFrame(t).referenceNode, a.j)
        [] a.pc = "rr_base" -> ExpandedFrame(t).referenceNode
        [] a.pc = "leaf_base" -> LeafFrame(t).referenceNode
        [] OTHER ->
             a.referenceMap[RDeref(a.referenceMap, a.it)][a.j + 1].referenceNode

\* Traverser t calls BaseCase for a pair of leaf nodes in this step.
LeafPairBaseCase(t) ==
  /\ Running(t)
  /\ trav'[t].baseCalls # trav[t].baseCalls
  /\ Top(trav[t]).pc \notin {"pm_score", "ps_score"}
  /\ ~NonLeafTop(t)
  /\ Scale(referenceTree, BaseCaseNode(t)) = INT_MIN

\* C28 as stated: the leaf loop skips a frame cached for this pair, counts
\* it, and otherwise calls Rescore and then, unless pruned, BaseCase once;
\* and no call of Traverse on a map evaluates BaseCase for a pair of leaf
\* nodes anywhere but in the leaf loop.
C28_LeafPhaseOnly ==
  [][\A t \in Runs :
       /\ LeafPhaseSteps(t)
       /\ LeafPairBaseCase(t) => Top(trav[t]).pc = "leaf_base"]_vars

\* C28 (amended): the same leaf loop; BaseCase for a pair of leaf nodes is
\* evaluated in the leaf loop, or in ReferenceRecursion for a non-self leaf
\* child of the reference node a query leaf expands.
C28_LeafPhaseOrExpansion ==
  [][\A t \in Runs :
       /\ LeafPhaseSteps(t)
       /\ LeafPairBaseCase(t) =>
            Top(trav[t]).pc \in {"leaf_base", "rr_child"}]_vars

\* The leaf loop went past a frame that was cached for another pair, was
\* not pruned by Rescore and had its base case evaluated.
C28_Witness ==
  \E t \in Runs :
    /\ At(t, "leaf_frame")
    /\ Top(trav[t]).i >= 1
    /\ LET a == Top(trav[t])
           frame == a.referenceMap[Min(DOMAIN a.referenceMap)][a.i]
           rkey == <<a.queryNode, frame.referenceNode, frame.score>>
       IN  /\ frame.queryIndex # Point(queryTree, a.queryNode)
           /\ rkey \in DOMAIN policy.rescore
           /\ policy.rescore[rkey] # DBL_MAX
           /\ trav[t].baseCalls[<<Point(queryTree, a.queryNode),
                                  Point(referenceTree, frame.referenceNode)>>]
                >= 1

\* ------------------------------------------- termination
\* The traversals of Spec with every enabled step eventually taken: a
\* caller that can start a traversal starts it, and a running traversal
\* goes on to its next statement.
SpecLive == Spec /\ WF_vars(Next)

InReferenceRecursion == {"rr_frame", "rr_base", "rr_self", "rr_child"}

\* One iteration of the loop of ReferenceRecursion works on the coarsest
\* bucket, which stays the coarsest while its frames are expanded, and ends
\* with that bucket discarded and every key left below it.
IterationLowersScale(t) ==
  (Running(t) /\ Top(trav[t]).pc \in InReferenceRecursion
     /\ trav'[t] # trav[t]) =>
    LET m == Top(trav[t]).referenceMap
        m2 == Top(trav'[t]).referenceMap
    IN  IF Top(trav'[t]).pc = "rr_loop"
        THEN /\ DOMAIN m2 = DOMAIN m \ {Max(DOMAIN m)}
             /\ \A k \in DOMAIN m2 : k < Max(DOMAIN m) /\ m2[k] = m[k]
        ELSE Max(DOMAIN m2) = Max(DOMAIN m)

\* C29: the dual-tree traversal terminates: on finite trees with strictly
\* finer child scales and self-children, for every policy, a running
\* Traverse(queryRoot, referenceRoot) eventually returns; and each iteration
\* of the loop of ReferenceRecursion discards the coarsest bucket and
\* strictly lowers the coarsest scale of the frontier.
C29_Terminates ==
  /\ \A t \in Runs :
       (trav[t].status = "running") ~> (trav[t].status = "done")
  /\ [][\A t \in Runs : IterationLowersScale(t)]_vars

\* A running traversal eventually ends, by a return or by a fault.
TraverseEnds ==
  \A t \in Runs : (trav[t].status = "running") ~> Finished(t)

\* What the caller's containers hold when the k-th Search call of the
\* object returns, from what the rules of that call recorded: the rules'
\* containers themselves without owned trees, else their columns mapped
\* back to the caller's indices.
SearchResult(k) ==
  LET empty == [i \in DOMAIN querySet |-> << >>]
  IN  IF ~rs.treeOwner
      THEN [neighbors |-> trav[k].neighbors, distances |-> trav[k].distances]
      ELSE MapColumns(rs, trav[k],
                      [neighbors |-> empty, distances |-> empty], 0)

\* C30: Search does not depend on what the caller's containers held or on
\* earlier Search calls: when it returns, in every mode and after every
\* constructor, neighbors and distances have one entry per query point,
\* neighbors[i] and distances[i] have the same length, they hold what this
\* call found and nothing of what they held before, and a second Search
\* with the same range leaves what the first one left.
C30_SearchIsRepeatable ==
  Returned =>
    /\ DOMAIN rs.neighbors = DOMAIN querySet
    /\ DOMAIN rs.distances = DOMAIN querySet
    /\ \A i \in DOMAIN querySet :
         Len(rs.neighbors[i]) = Len(rs.distances[i])
    /\ rs.neighbors = SearchResult(rs.searches).neighbors
    /\ rs.distances = SearchResult(rs.searches).distances
    /\ rs.searches = 2 => SearchResult(2) = SearchResult(1)

\* The second Search of an object that owns its trees has returned with a
\* neighbour found for every one of two query points.
C30_Witness ==
  /\ Returned
  /\ rs.searches = 2
  /\ rs.treeOwner
  /\ Cardinality(DOMAIN querySet) = 2
  /\ \A i \in DOMAIN querySet : rs.neighbors[i] # << >>

====
